---- MODULE Spec2Model ----
(***************************************************************************)
(* A model of theplant/ratelimiter: the virtual-schedule admission         *)
(* arithmetic, the GORM (relational, transactional) driver of              *)
(* driver_gorm.go, the Redis driver of driver_redis.go with its embedded   *)
(* script, and the stand-alone Lua script.                                 *)
(*                                                                         *)
(* Instants and durations are integers counting nanoseconds, as Go's       *)
(* time.Time and time.Duration do; the stores hold whole microseconds.     *)
(* Stored values are decimal strings, modelled as sequences of characters. *)
(***************************************************************************)
EXTENDS Integers, Sequences, FiniteSets, TLC

\* ------------------------------------------------------------- bounds
NProcs == 2        \* concurrent callers of the GORM driver
MaxTicks == 2      \* microseconds the store clock may advance
MaxBurst == 2      \* largest burst a request carries
MaxFaults == 1     \* storage failures injected in one behaviour
MaxDeletes == 1    \* rows removed by the external cleanup in one behaviour
Epoch == 10        \* the store clock's first reading, in microseconds
MaxCalls == 4      \* calls in a behaviour that counts admitted tokens

\* ------------------------------------------------- program constants
Micro == 1000      \* nanoseconds per microsecond (time.Microsecond)
ZeroTime == -1000000   \* stands for Go's zero time.Time (IsZero)

Procs == 1..NProcs
Keys == {"a", "b"}      \* the keys the stores may hold
OneKey == {"a"}         \* the key of the scenarios about one bucket
NoProc == 0

Max(a, b) == IF a >= b THEN a ELSE b

\* --------------------------------------------------- strconv, time
Digits == <<"0", "1", "2", "3", "4", "5", "6", "7", "8", "9">>

RECURSIVE FormatNat(_)
FormatNat(n) ==
    IF n < 10 THEN <<Digits[n + 1]>>
    ELSE Append(FormatNat(n \div 10), Digits[(n % 10) + 1])

\* strconv.FormatInt(n, 10)
FormatInt(n) == IF n < 0 THEN <<"-">> \o FormatNat(0 - n) ELSE FormatNat(n)

DigitVal(c) == (CHOOSE i \in 1..10 : Digits[i] = c) - 1

IsDigits(s) == Len(s) > 0 /\ \A i \in 1..Len(s) : \E j \in 1..10 : Digits[j] = s[i]

RECURSIVE ParseNat(_)
ParseNat(s) ==
    IF Len(s) = 0 THEN 0
    ELSE ParseNat(SubSeq(s, 1, Len(s) - 1)) * 10 + DigitVal(s[Len(s)])

\* strconv.ParseInt(s, 10, 64): an optional sign, then at least one digit
ParseInt(s) ==
    IF Len(s) > 0 /\ s[1] \in {"-", "+"}
    THEN IF IsDigits(Tail(s))
         THEN [err |-> FALSE,
               val |-> IF s[1] = "-" THEN 0 - ParseNat(Tail(s)) ELSE ParseNat(Tail(s))]
         ELSE [err |-> TRUE, val |-> 0]
    ELSE IF IsDigits(s) THEN [err |-> FALSE, val |-> ParseNat(s)]
         ELSE [err |-> TRUE, val |-> 0]

\* Time.UnixMicro: whole microseconds since the epoch, rounding down
UnixMicro(t) == t \div Micro

\* time.UnixMicro(usec)
TimeUnixMicro(usec) == usec * Micro

\* Duration.Microseconds: integer division of int64, truncating toward zero
Microseconds(d) == IF d >= 0 THEN d \div Micro ELSE 0 - ((0 - d) \div Micro)

IsZero(t) == t = ZeroTime

NoRequest ==
    [Key |-> "", DurationPerToken |-> 0, Burst |-> 0, Now |-> ZeroTime,
     Tokens |-> 0, MaxFutureReserve |-> 0]
NoContext == [hasNowFunc |-> FALSE, nowFunc |-> ZeroTime, done |-> FALSE]

VARIABLES
    driver,     \* the Driver the RateLimiter wraps: "gorm", "redis" or "lua"
    dialect,    \* db.Dialector.Name() of the database the GORM driver is on
    Test,       \* the package variable Test
    clock,      \* the backing store's clock, in microseconds
    kvs,        \* committed rows of table kvs: key -> <<>> or <<Value>>
    lockedBy,   \* key -> the transaction holding the row (lock or own insert)
    rds,        \* the Redis keyspace: key -> <<>> or <<value string>>
    pc,         \* where each GORM caller stands
    req, ctx, idx,                  \* arguments of reserve
    now, timeBase, timeToAct, ok,   \* locals of reserve
    kv,         \* the scanned kvWrapper
    tx,         \* the transaction's uncommitted row: <<>> or <<Value>>
    ret,        \* what reserve returned: <<>> or <<[err, r]>>
    errs,       \* errors of this call's transactions, oldest first (history)
    last,       \* per key, the last decided call (history)
    rate,       \* the caller's configured rate: [DurationPerToken, Burst]
    faults, deletes,
    model,      \* per key, the time base of the sequential model (history)
    expect,     \* per caller, what the sequential model answers (history)
    calls,      \* Reserve calls completed in a burst scenario (history)
    facade,     \* per caller, the Allow call it is in: <<>> or <<[req, out]>>
    called,     \* per caller, the method it called on its Reservation, if any
    admitted    \* per key, <<now, tokens>> of the calls admitted so far (history)

\* ------------------------------------------------------------ inputs
\* Instants a caller may name, whole and fractional microseconds, at gaps of
\* 500, 1000 and 1500 ns.
Instants == {Epoch * Micro + 250 * i * (i + 1) : i \in 0..MaxTicks}
Durations == {500, 1000, 1500}
Reserves == {0 - 1000, 0, 1500}

\* The ReserveRequest a caller builds for its configured rate.
Request(k, n, t, m) ==
    [Key |-> k, DurationPerToken |-> rate.DurationPerToken, Burst |-> rate.Burst,
     Now |-> n, Tokens |-> t, MaxFutureReserve |-> m]

\* Requests the drivers must refuse, one field wrong in each.
InvalidRequests(n) ==
    LET r == Request("a", n, 1, 0)
    IN  {[r EXCEPT !.Key = ""], [r EXCEPT !.DurationPerToken = 0],
         [r EXCEPT !.Burst = 0], [r EXCEPT !.Tokens = 0],
         [r EXCEPT !.Tokens = rate.Burst + 1]}

Requests(nows) ==
    {Request(k, n, t, m) : k \in OneKey, n \in nows, t \in 1..rate.Burst, m \in Reserves}
    \cup UNION {InvalidRequests(n) : n \in nows}

\* The call context: the clock override of WithNowFuncForTest (hasNowFunc,
\* nowFunc) and whether the context is already done.
\* Outside test mode one override stands for all: it is never read.
Contexts ==
    [hasNowFunc : {FALSE}, nowFunc : {ZeroTime}, done : BOOLEAN]
    \cup [hasNowFunc : {TRUE}, done : {FALSE},
          nowFunc : IF Test THEN Instants ELSE {Epoch * Micro + 500}]

ScriptContexts == [hasNowFunc : {FALSE}, nowFunc : {ZeroTime}, done : BOOLEAN]

\* Requests of the callers that race on one key, on the store's clock.
RaceRequests ==
    {Request(k, ZeroTime, t, m) : k \in OneKey, t \in 1..rate.Burst, m \in {0, 1000}}

vars ==
    <<rate, driver, dialect, Test, clock, kvs, lockedBy, rds, pc, req, ctx, idx, now,
      timeBase, timeToAct, ok, kv, tx, ret, errs, last, faults, deletes, model, expect,
      calls, facade, called, admitted>>

\* -------------------------------------------- virtual schedule steps
\* a validation that lets a request for more tokens than the burst pass
InvalidParametersWithinBurst(r) ==
    \/ r.Key = ""
    \/ r.DurationPerToken <= 0
    \/ r.Burst <= 0
    \/ r.Tokens <= 0

\* line 96 of driver_gorm.go
InvalidParameters(r) ==
    \/ r.Key = ""
    \/ r.DurationPerToken <= 0
    \/ r.Burst <= 0
    \/ r.Tokens <= 0
    \/ r.Tokens > r.Burst

\* resetValue := now.Add(-time.Duration(req.Burst) * req.DurationPerToken)
resetValue(n, r) == n - r.Burst * r.DurationPerToken

\* a clamp that forgets the stored base
clampToReset(unixMicroBase, n, r) == resetValue(n, r)

\* the else branch of "not found": parse, time.UnixMicro, clamp to resetValue
clampTimeBase(unixMicroBase, n, r) ==
    IF TimeUnixMicro(unixMicroBase) < resetValue(n, r)
    THEN resetValue(n, r)
    ELSE TimeUnixMicro(unixMicroBase)

\* tokensDuration, timeToAct
addTokens(base, r) == base + r.DurationPerToken * r.Tokens

\* an admission test that rejects the boundary
tooLateAtBoundary(t, n, r) == t >= n + r.MaxFutureReserve

\* timeToAct.After(now.Add(req.MaxFutureReserve))
tooLate(t, n, r) == t > n + r.MaxFutureReserve

\* a row value counted in nanoseconds
rowValueNano(t) == FormatInt(t)

\* strconv.FormatInt(t.UnixMicro(), 10): the Value a row is given
rowValue(t) == FormatInt(UnixMicro(t))

isDuplicateKeyError(e) == e = "SQLSTATE 23505"

\* a retry of every duplicate-key error, whatever the attempt
retryEveryDuplicate(i, e) == isDuplicateKeyError(e)

\* if idx == 0 && isDuplicateKeyError(err): the attempt is made again
retryable(i, e) == i = 0 /\ isDuplicateKeyError(e)

\* ----------------------------------------------------- return values
Reservation(r, o, t, n) == [ReserveRequest |-> r, OK |-> o, TimeToAct |-> t, Now |-> n]
Success(rv) == <<[err |-> "nil", r |-> <<rv>>]>>
Failure(e) == <<[err |-> e, r |-> <<>>]>>

NoKV == [Key |-> "", Value |-> <<>>, Now |-> ZeroTime]

\* a query that never finds the row
rawQueryNoRow(k) == [Key |-> "", Value |-> <<>>, Now |-> TimeUnixMicro(clock)]

\* What the row-locking query scans: the row of key k, if committed, joined
\* with the store's clock (rawQuery, lines 44-51).
rawQuery(k) ==
    IF kvs[k] = <<>>
    THEN [Key |-> "", Value |-> <<>>, Now |-> TimeUnixMicro(clock)]
    ELSE [Key |-> k, Value |-> kvs[k][1], Now |-> TimeUnixMicro(clock)]

\* a delay that may be negative
DelayFromUnclamped(rv, t) ==
    IF ~rv.OK THEN [panic |-> TRUE, d |-> 0]
    ELSE [panic |-> FALSE, d |-> rv.TimeToAct - t]

\* Reservation.DelayFrom and Reservation.RetryAfterFrom; a call on the wrong
\* outcome panics.
DelayFrom(rv, t) ==
    IF ~rv.OK THEN [panic |-> TRUE, d |-> 0]
    ELSE [panic |-> FALSE, d |-> Max(rv.TimeToAct - t, 0)]

\* a retry-after that forgets the request's future reserve
RetryAfterFromTimeToAct(rv, t) ==
    IF rv.OK THEN [panic |-> TRUE, d |-> 0]
    ELSE [panic |-> FALSE, d |-> Max(rv.TimeToAct - t, 0)]

\* a retry-after that answers on an admitted Reservation too
RetryAfterFromAnyOutcome(rv, t) ==
    [panic |-> FALSE,
     d |-> Max(rv.TimeToAct - t - rv.ReserveRequest.MaxFutureReserve, 0)]

RetryAfterFrom(rv, t) ==
    IF rv.OK THEN [panic |-> TRUE, d |-> 0]
    ELSE [panic |-> FALSE,
          d |-> Max(rv.TimeToAct - t - rv.ReserveRequest.MaxFutureReserve, 0)]

\* Two requests that differ at most in Now.
SameRequest(a, b) == [a EXCEPT !.Now = ZeroTime] = [b EXCEPT !.Now = ZeroTime]

\* One decided call, as the history keeps it: the request, the instant it was
\* served at, the Reservation's OK and TimeToAct, the key's stored value
\* before and after. retry is <<d>> when the call repeats the request of the
\* key's previous decided call prev, that call was rejected with
\* RetryAfterFrom(its now) = d, and this one is served DurationPerToken later.
Decided(d, r, n, o, t, before, after, prev) ==
    <<[driver |-> d, req |-> r, now |-> n, OK |-> o, TimeToAct |-> t,
       before |-> before, after |-> after,
       retry |-> IF /\ prev # <<>>
                    /\ ~prev[1].OK
                    /\ SameRequest(prev[1].req, r)
                    /\ n = prev[1].now + r.DurationPerToken
                 THEN <<RetryAfterFrom(Reservation(prev[1].req, FALSE,
                            prev[1].TimeToAct, prev[1].now), prev[1].now).d>>
                 ELSE <<>>]>>

\* a context check that never finds the context done
NeverDone(c) == FALSE

\* select { case <-ctx.Done(): ... default: }: the context is already done
Done(c) == c.done

\* ------------------------------------------------------- GORM driver
\* a second attempt that keeps the now of the failed one
reserveKeepingNow(p, r, c, i) ==
    /\ idx' = [idx EXCEPT ![p] = i]
    /\ timeBase' = [timeBase EXCEPT ![p] = ZeroTime]
    /\ timeToAct' = [timeToAct EXCEPT ![p] = ZeroTime]
    /\ ok' = [ok EXCEPT ![p] = FALSE]
    /\ kv' = [kv EXCEPT ![p] = NoKV]
    /\ IF InvalidParameters(r)
       THEN /\ pc' = [pc EXCEPT ![p] = "done"]
            /\ ret' = [ret EXCEPT ![p] = Failure("ErrInvalidParameters")]
            /\ now' = [now EXCEPT ![p] = ZeroTime]
       ELSE IF Done(c)
       THEN /\ pc' = [pc EXCEPT ![p] = "done"]
            /\ ret' = [ret EXCEPT ![p] = Failure("context done")]
            /\ now' = [now EXCEPT ![p] = ZeroTime]
       ELSE /\ pc' = [pc EXCEPT ![p] = "query"]
            /\ ret' = [ret EXCEPT ![p] = <<>>]
            /\ now' = [now EXCEPT ![p] =
                         IF i > 0 THEN @
                         ELSE IF Test /\ c.hasNowFunc THEN c.nowFunc ELSE ZeroTime]

\* a reserve that takes the clock override whatever the Test flag says
reserveWithAnyOverride(p, r, c, i) ==
    /\ idx' = [idx EXCEPT ![p] = i]
    /\ timeBase' = [timeBase EXCEPT ![p] = ZeroTime]
    /\ timeToAct' = [timeToAct EXCEPT ![p] = ZeroTime]
    /\ ok' = [ok EXCEPT ![p] = FALSE]
    /\ kv' = [kv EXCEPT ![p] = NoKV]
    /\ IF InvalidParameters(r)
       THEN /\ pc' = [pc EXCEPT ![p] = "done"]
            /\ ret' = [ret EXCEPT ![p] = Failure("ErrInvalidParameters")]
            /\ now' = [now EXCEPT ![p] = ZeroTime]
       ELSE IF Done(c)
       THEN /\ pc' = [pc EXCEPT ![p] = "done"]
            /\ ret' = [ret EXCEPT ![p] = Failure("context done")]
            /\ now' = [now EXCEPT ![p] = ZeroTime]
       ELSE /\ pc' = [pc EXCEPT ![p] = "query"]
            /\ ret' = [ret EXCEPT ![p] = <<>>]
            /\ now' = [now EXCEPT ![p] =
                         IF c.hasNowFunc THEN c.nowFunc ELSE ZeroTime]

\* a reserve that looks at the context before it looks at the request
reserveCancellationFirst(p, r, c, i) ==
    /\ idx' = [idx EXCEPT ![p] = i]
    /\ timeBase' = [timeBase EXCEPT ![p] = ZeroTime]
    /\ timeToAct' = [timeToAct EXCEPT ![p] = ZeroTime]
    /\ ok' = [ok EXCEPT ![p] = FALSE]
    /\ kv' = [kv EXCEPT ![p] = NoKV]
    /\ IF Done(c)
       THEN /\ pc' = [pc EXCEPT ![p] = "done"]
            /\ ret' = [ret EXCEPT ![p] = Failure("context done")]
            /\ now' = [now EXCEPT ![p] = ZeroTime]
       ELSE IF InvalidParameters(r)
       THEN /\ pc' = [pc EXCEPT ![p] = "done"]
            /\ ret' = [ret EXCEPT ![p] = Failure("ErrInvalidParameters")]
            /\ now' = [now EXCEPT ![p] = ZeroTime]
       ELSE /\ pc' = [pc EXCEPT ![p] = "query"]
            /\ ret' = [ret EXCEPT ![p] = <<>>]
            /\ now' = [now EXCEPT ![p] =
                         IF Test /\ c.hasNowFunc THEN c.nowFunc ELSE ZeroTime]

\* reserve, lines 95-116: validation, the context check, the clock override
\* of test mode, fresh locals. i is the idx argument.
reserve(p, r, c, i) ==
    /\ idx' = [idx EXCEPT ![p] = i]
    /\ timeBase' = [timeBase EXCEPT ![p] = ZeroTime]
    /\ timeToAct' = [timeToAct EXCEPT ![p] = ZeroTime]
    /\ ok' = [ok EXCEPT ![p] = FALSE]
    /\ kv' = [kv EXCEPT ![p] = NoKV]
    /\ IF InvalidParameters(r)
       THEN /\ pc' = [pc EXCEPT ![p] = "done"]
            /\ ret' = [ret EXCEPT ![p] = Failure("ErrInvalidParameters")]
            /\ now' = [now EXCEPT ![p] = ZeroTime]
       ELSE IF Done(c)
       THEN /\ pc' = [pc EXCEPT ![p] = "done"]
            /\ ret' = [ret EXCEPT ![p] = Failure("context done")]
            /\ now' = [now EXCEPT ![p] = ZeroTime]
       ELSE /\ pc' = [pc EXCEPT ![p] = "query"]
            /\ ret' = [ret EXCEPT ![p] = <<>>]
            /\ now' = [now EXCEPT ![p] =
                         IF Test /\ c.hasNowFunc THEN c.nowFunc ELSE ZeroTime]

\* a failure that leaves the transaction's row and locks in place
TxFailWithoutRollback(p, e) ==
    /\ UNCHANGED <<lockedBy, tx, idx, now, timeBase, timeToAct, ok, kv>>
    /\ errs' = [errs EXCEPT ![p] = Append(@, e)]
    /\ pc' = [pc EXCEPT ![p] = "done"]
    /\ ret' = [ret EXCEPT ![p] = Failure(e)]

\* The transaction body returned error e (lines 173-179): the transaction is
\* rolled back; a duplicate-key error of the first attempt calls reserve
\* again with idx + 1, any other error is returned.
TxFail(p, e) ==
    /\ lockedBy' = [k \in Keys |-> IF lockedBy[k] = p THEN NoProc ELSE lockedBy[k]]
    /\ tx' = [tx EXCEPT ![p] = <<>>]
    /\ errs' = [errs EXCEPT ![p] = Append(@, e)]
    /\ IF retryable(idx[p], e)
       THEN reserve(p, req[p], ctx[p], idx[p] + 1)
       ELSE /\ pc' = [pc EXCEPT ![p] = "done"]
            /\ ret' = [ret EXCEPT ![p] = Failure(e)]
            /\ now' = [now EXCEPT ![p] = ZeroTime]
            /\ timeBase' = [timeBase EXCEPT ![p] = ZeroTime]
            /\ timeToAct' = [timeToAct EXCEPT ![p] = ZeroTime]
            /\ ok' = [ok EXCEPT ![p] = FALSE]
            /\ kv' = [kv EXCEPT ![p] = NoKV]
            /\ UNCHANGED idx

\* Reserve (lines 91-93) called by caller p with request r under context c.
GormReserve(p, r, c) ==
    /\ driver = "gorm"
    /\ pc[p] = "idle"
    /\ req' = [req EXCEPT ![p] = r]
    /\ ctx' = [ctx EXCEPT ![p] = c]
    /\ errs' = [errs EXCEPT ![p] = <<>>]
    /\ reserve(p, r, c, 0)
    /\ UNCHANGED <<rate, driver, dialect, Test, clock, kvs, lockedBy, rds, tx, last, faults, deletes>>

\* FOR UPDATE without effect: a row is read whoever holds it
withoutForUpdate(k) == TRUE

\* a locking read that takes a lock on the whole table
forUpdateTable(k) == \A j \in Keys : lockedBy[j] = NoProc

\* SELECT ... FOR UPDATE (rawQuery, line 46): the row of key k is read once
\* no other transaction holds it.
forUpdate(k) == lockedBy[k] = NoProc

\* Lines 121-134 and 145-155: the transaction of caller p has scanned `row`.
\* A row found is locked; the store's clock is now unless the override set
\* it; the value of a row found is parsed and clamped.
scan(p, row) ==
    LET k == req[p].Key
        n == IF IsZero(now[p]) THEN row.Now ELSE now[p]
        parsed == ParseInt(row.Value)
    IN  IF row.Key # "" /\ parsed.err
        THEN TxFail(p, "failed to parse base time")
        ELSE /\ lockedBy' = IF row.Key # "" THEN [lockedBy EXCEPT ![k] = p]
                            ELSE lockedBy
             /\ kv' = [kv EXCEPT ![p] = row]
             /\ now' = [now EXCEPT ![p] = n]
             /\ timeBase' = [timeBase EXCEPT ![p] =
                    IF row.Key # "" THEN clampTimeBase(parsed.val, n, req[p])
                    ELSE @]
             /\ pc' = [pc EXCEPT ![p] = IF row.Key = "" THEN "create" ELSE "update"]
             /\ UNCHANGED <<tx, errs, idx, ret, timeToAct, ok>>

\* Lines 118-123: the transaction begins and runs the locking query, which
\* no other transaction keeps waiting: the row and the clock are read at
\* once.
GormQuery(p) ==
    /\ pc[p] = "query"
    /\ rawQuery(req[p].Key).Key # "" => forUpdate(req[p].Key)
    /\ scan(p, rawQuery(req[p].Key))
    /\ UNCHANGED <<rate, driver, dialect, Test, clock, kvs, rds, req, ctx, last, faults,
                   deletes>>

\* The dialects NewGormDriver tells apart (lines 33-42).
Dialects == {"mysql", "postgres", "other"}

\* What the column `now` of the locking query can hold when the statement
\* started at instant atStart and its row was produced at instant atRow:
\* clock_timestamp() of PostgreSQL is the clock as the row is produced;
\* CURRENT_TIMESTAMP(6) of MySQL is the time the statement began; the
\* CURRENT_TIMESTAMP of another database is one or the other.
currentTimestampQuery(atStart, atRow) ==
    IF dialect = "postgres" THEN {atRow}
    ELSE IF dialect = "mysql" THEN {atStart}
    ELSE {atStart, atRow}

\* Lines 118-123, the locking query kept waiting: the transaction of caller
\* p begins and runs the query while another transaction holds the row. kv
\* keeps the instant the statement began.
GormWait(p) ==
    /\ pc[p] = "query"
    /\ rawQuery(req[p].Key).Key # ""
    /\ ~forUpdate(req[p].Key)
    /\ pc' = [pc EXCEPT ![p] = "wait"]
    /\ kv' = [kv EXCEPT ![p] = [NoKV EXCEPT !.Now = TimeUnixMicro(clock)]]
    /\ UNCHANGED <<rate, driver, dialect, Test, clock, kvs, lockedBy, rds, req, ctx, idx,
                   now, timeBase, timeToAct, ok, tx, ret, errs, last, faults, deletes>>

\* The holder has finished: the waiting query of caller p returns the row as
\* committed by then, with the `now` column of the dialect.
GormGranted(p) ==
    /\ pc[p] = "wait"
    /\ forUpdate(req[p].Key)
    /\ \E n \in currentTimestampQuery(kv[p].Now, TimeUnixMicro(clock)) :
           scan(p, [rawQuery(req[p].Key) EXCEPT !.Now = n])
    /\ UNCHANGED <<rate, driver, dialect, Test, clock, kvs, rds, req, ctx, last, faults,
                   deletes>>

\* Lines 137-144: no row was found; the reset value is inserted. A row of
\* the key committed meanwhile makes the insert fail on the unique key; an
\* uncommitted insert of another transaction makes it wait.
GormCreate(p) ==
    /\ pc[p] = "create"
    /\ LET k == req[p].Key
           base == resetValue(now[p], req[p])
       IN  IF kvs[k] # <<>>
           THEN TxFail(p, "SQLSTATE 23505")
           ELSE /\ lockedBy[k] = NoProc
                /\ lockedBy' = [lockedBy EXCEPT ![k] = p]
                /\ timeBase' = [timeBase EXCEPT ![p] = base]
                /\ tx' = [tx EXCEPT ![p] = <<rowValue(base)>>]
                /\ pc' = [pc EXCEPT ![p] = "update"]
                /\ UNCHANGED <<errs, idx, ret, now, timeToAct, ok, kv>>
    /\ UNCHANGED <<rate, driver, dialect, Test, clock, kvs, rds, req, ctx, last, faults, deletes>>

\* Lines 157-171: timeToAct, the admission test, and for an admitted
\* request the update of the row.
GormUpdate(p) ==
    /\ pc[p] = "update"
    /\ LET t == addTokens(timeBase[p], req[p])
       IN  /\ timeToAct' = [timeToAct EXCEPT ![p] = t]
           /\ IF tooLate(t, now[p], req[p])
              THEN /\ ok' = [ok EXCEPT ![p] = FALSE]
                   /\ UNCHANGED tx
              ELSE /\ ok' = [ok EXCEPT ![p] = TRUE]
                   /\ tx' = [tx EXCEPT ![p] = <<rowValue(t)>>]
    /\ pc' = [pc EXCEPT ![p] = "commit"]
    /\ UNCHANGED <<rate, driver, dialect, Test, clock, kvs, lockedBy, rds, req, ctx, idx, now,
                   timeBase, kv, ret, errs, last, faults, deletes>>

\* The error the transaction body returns when the statement a transaction
\* is at fails (lines 122, 143, 168).
storageError(at) ==
    IF at = "query" THEN "failed to get kv"
    ELSE IF at = "create" THEN "failed to create kv"
    ELSE "failed to save time to act"

\* A storage failure inside the transaction body (the query, the insert or
\* the update returns an error that is no unique-key violation).
GormStorageError(p) ==
    /\ pc[p] \in {"query", "create", "update"}
    /\ pc[p] = "update" => ~tooLate(addTokens(timeBase[p], req[p]), now[p], req[p])
    /\ faults < MaxFaults
    /\ faults' = faults + 1
    /\ TxFail(p, storageError(pc[p]))
    /\ UNCHANGED <<rate, driver, dialect, Test, clock, kvs, rds, req, ctx, last, deletes>>

\* a commit that leaves the row locked when the request was rejected
GormCommitHoldingLock(p) ==
    /\ pc[p] = "commit"
    /\ kvs' = [kvs EXCEPT ![req[p].Key] = IF tx[p] # <<>> THEN tx[p] ELSE @]
    /\ lockedBy' = [k \in Keys |-> IF lockedBy[k] = p /\ ok[p] THEN NoProc
                                    ELSE lockedBy[k]]
    /\ tx' = [tx EXCEPT ![p] = <<>>]
    /\ ret' = [ret EXCEPT ![p] =
                 Success(Reservation(req[p], ok[p], timeToAct[p], now[p]))]
    /\ pc' = [pc EXCEPT ![p] = "done"]
    /\ now' = [now EXCEPT ![p] = ZeroTime]
    /\ timeBase' = [timeBase EXCEPT ![p] = ZeroTime]
    /\ timeToAct' = [timeToAct EXCEPT ![p] = ZeroTime]
    /\ ok' = [ok EXCEPT ![p] = FALSE]
    /\ kv' = [kv EXCEPT ![p] = NoKV]
    /\ UNCHANGED <<rate, driver, dialect, Test, clock, rds, req, ctx, idx, errs, faults, deletes>>

\* Lines 172 and 181-186: the transaction commits, which publishes its row
\* and releases its lock, and the Reservation is returned.
GormCommit(p) ==
    /\ pc[p] = "commit"
    /\ kvs' = [kvs EXCEPT ![req[p].Key] = IF tx[p] # <<>> THEN tx[p] ELSE @]
    /\ lockedBy' = [k \in Keys |-> IF lockedBy[k] = p THEN NoProc ELSE lockedBy[k]]
    /\ tx' = [tx EXCEPT ![p] = <<>>]
    /\ ret' = [ret EXCEPT ![p] =
                 Success(Reservation(req[p], ok[p], timeToAct[p], now[p]))]
    /\ pc' = [pc EXCEPT ![p] = "done"]
    /\ now' = [now EXCEPT ![p] = ZeroTime]
    /\ timeBase' = [timeBase EXCEPT ![p] = ZeroTime]
    /\ timeToAct' = [timeToAct EXCEPT ![p] = ZeroTime]
    /\ ok' = [ok EXCEPT ![p] = FALSE]
    /\ kv' = [kv EXCEPT ![p] = NoKV]
    /\ UNCHANGED <<rate, driver, dialect, Test, clock, rds, req, ctx, idx, errs, faults, deletes>>

\* History: the call caller p commits is the last decided call of its key.
GormRecord(p) ==
    last' = [last EXCEPT ![req[p].Key] =
               Decided("gorm", req[p], now[p], ok[p], timeToAct[p],
                       kvs[req[p].Key], kvs'[req[p].Key], last[req[p].Key])]

\* The caller takes the result; the caller may call again.
Return(p) ==
    /\ pc[p] = "done"
    /\ pc' = [pc EXCEPT ![p] = "idle"]
    /\ req' = [req EXCEPT ![p] = NoRequest]
    /\ ctx' = [ctx EXCEPT ![p] = NoContext]
    /\ idx' = [idx EXCEPT ![p] = 0]
    /\ ret' = [ret EXCEPT ![p] = <<>>]
    /\ errs' = [errs EXCEPT ![p] = <<>>]
    /\ UNCHANGED <<rate, driver, dialect, Test, clock, kvs, lockedBy, rds, now, timeBase,
                   timeToAct, ok, kv, tx, last, faults, deletes>>

\* ------------------------------------------------------ Redis driver
\* redisScript of driver_redis.go (lines 13-49), run on the stored value
\* of KEYS[1] with ARGV = <<durationPerToken, burst, tokens, now,
\* maxFutureReserve>>: the reply and the value the key holds afterwards.
\* Lua's tonumber reads the stored string; "set" writes the number's digits.
redisScript(stored, ARGV) ==
    LET durationPerToken == ARGV[1]
        burst == ARGV[2]
        tokens == ARGV[3]
        n == ARGV[4]
        maxFutureReserve == ARGV[5]
        reset == n - (burst * durationPerToken)
        base == IF stored = <<>> \/ ParseInt(stored[1]).err
                   \/ ParseInt(stored[1]).val < reset
                THEN reset
                ELSE ParseInt(stored[1]).val
        t == base + tokens * durationPerToken
    IN  IF n <= 0 \/ durationPerToken <= 0 \/ burst <= 0 \/ tokens <= 0
           \/ tokens > burst
        THEN [reply |-> <<0 - 2, 0>>, db |-> stored]
        ELSE IF t > n + maxFutureReserve
        THEN [reply |-> <<0 - 1, t>>, db |-> stored]
        ELSE [reply |-> <<0, t>>, db |-> <<FormatInt(t)>>]

\* The arguments both script drivers pass (driver_redis.go lines 80-86).
scriptArgs(r, n) ==
    <<Microseconds(r.DurationPerToken), r.Burst, r.Tokens, UnixMicro(n),
      Microseconds(r.MaxFutureReserve)>>

\* RedisDriver.Reserve (driver_redis.go lines 68-115); EvalSha runs the
\* script atomically, so the call is one step.
RedisReserve(p, r, c) ==
    /\ driver = "redis"
    /\ pc[p] = "idle"
    /\ req' = [req EXCEPT ![p] = r]
    /\ ctx' = [ctx EXCEPT ![p] = c]
    /\ pc' = [pc EXCEPT ![p] = "done"]
    /\ IF r.Key = "" \/ IsZero(r.Now) \/ InvalidParameters(r)
       THEN /\ ret' = [ret EXCEPT ![p] = Failure("ErrInvalidParameters")]
            /\ UNCHANGED <<rds, last>>
       ELSE IF Done(c)
       THEN /\ ret' = [ret EXCEPT ![p] = Failure("context done")]
            /\ UNCHANGED <<rds, last>>
       ELSE LET res == redisScript(rds[r.Key], scriptArgs(r, r.Now))
                status == res.reply[1]
                unixMicroToAct == res.reply[2]
            IN  /\ rds' = [rds EXCEPT ![r.Key] = res.db]
                /\ IF Len(res.reply) # 2
                   THEN /\ ret' = [ret EXCEPT ![p] =
                                Failure("unexpected script result format")]
                        /\ UNCHANGED last
                   ELSE IF status = 0 - 2
                   THEN /\ ret' = [ret EXCEPT ![p] = Failure("ErrInvalidParameters")]
                        /\ UNCHANGED last
                   ELSE /\ ret' = [ret EXCEPT ![p] = Success(Reservation(
                                r, status = 0, TimeUnixMicro(unixMicroToAct), ZeroTime))]
                        /\ last' = [last EXCEPT ![r.Key] = Decided(
                                "redis", r, r.Now, status = 0,
                                TimeUnixMicro(unixMicroToAct), rds[r.Key], res.db,
                                last[r.Key])]
    /\ UNCHANGED <<rate, driver, dialect, Test, clock, kvs, lockedBy, idx, now, timeBase,
                   timeToAct, ok, kv, tx, errs, faults, deletes>>

\* --------------------------------------------- stand-alone Lua script
\* The script file: run on the stored value of KEYS[1] at store time
\* `time` (what redis TIME reads, in microseconds) with the same ARGV.
\* A key that holds nothing is first set to the reset value.
luaScript(stored, time, ARGV) ==
    LET durationPerToken == ARGV[1]
        burst == ARGV[2]
        tokens == ARGV[3]
        n == IF ARGV[4] <= 0 THEN time ELSE ARGV[4]
        maxFutureReserve == ARGV[5]
        reset == n - (burst * durationPerToken)
        absent == stored = <<>> \/ ParseInt(stored[1]).err
        base == IF absent \/ ParseInt(stored[1]).val < reset
                THEN reset
                ELSE ParseInt(stored[1]).val
        t == base + tokens * durationPerToken
    IN  IF durationPerToken <= 0 \/ burst <= 0 \/ tokens <= 0 \/ tokens > burst
        THEN [reply |-> <<0 - 2, 0, 0>>, db |-> stored]
        ELSE IF t > n + maxFutureReserve
        THEN [reply |-> <<0 - 1, t, n>>,
              db |-> IF absent THEN <<FormatInt(reset)>> ELSE stored]
        ELSE [reply |-> <<0, t, n>>, db |-> <<FormatInt(t)>>]

\* The driver around the script file: validation and the context check as
\* in the other drivers, a request without Now sends the script no instant,
\* and the three-element reply becomes the Reservation.
LuaReserve(p, r, c) ==
    /\ driver = "lua"
    /\ pc[p] = "idle"
    /\ req' = [req EXCEPT ![p] = r]
    /\ ctx' = [ctx EXCEPT ![p] = c]
    /\ pc' = [pc EXCEPT ![p] = "done"]
    /\ IF InvalidParameters(r)
       THEN /\ ret' = [ret EXCEPT ![p] = Failure("ErrInvalidParameters")]
            /\ UNCHANGED <<rds, last>>
       ELSE IF Done(c)
       THEN /\ ret' = [ret EXCEPT ![p] = Failure("context done")]
            /\ UNCHANGED <<rds, last>>
       ELSE LET args == IF IsZero(r.Now) THEN [scriptArgs(r, r.Now) EXCEPT ![4] = 0]
                        ELSE scriptArgs(r, r.Now)
                res == luaScript(rds[r.Key], clock, args)
                status == res.reply[1]
            IN  /\ rds' = [rds EXCEPT ![r.Key] = res.db]
                /\ IF status = 0 - 2
                   THEN /\ ret' = [ret EXCEPT ![p] = Failure("ErrInvalidParameters")]
                        /\ UNCHANGED last
                   ELSE /\ ret' = [ret EXCEPT ![p] = Success(Reservation(
                                r, status = 0, TimeUnixMicro(res.reply[2]),
                                TimeUnixMicro(res.reply[3])))]
                        /\ last' = [last EXCEPT ![r.Key] = Decided(
                                "lua", r,
                                IF IsZero(r.Now) THEN TimeUnixMicro(clock) ELSE r.Now,
                                status = 0, TimeUnixMicro(res.reply[2]),
                                rds[r.Key], res.db, last[r.Key])]
    /\ UNCHANGED <<rate, driver, dialect, Test, clock, kvs, lockedBy, idx, now, timeBase,
                   timeToAct, ok, kv, tx, errs, faults, deletes>>

\* ------------------------------------------------------ environment
\* The store's clock advances.
Tick ==
    /\ clock < Epoch + MaxTicks
    /\ clock' = clock + 1
    /\ UNCHANGED <<rate, driver, dialect, Test, kvs, lockedBy, rds, pc, req, ctx, idx, now,
                   timeBase, timeToAct, ok, kv, tx, ret, errs, last, faults, deletes>>

\* Cleanup outside the library deletes a row no transaction holds.
DeleteRow(k) ==
    /\ driver = "gorm"
    /\ deletes < MaxDeletes
    /\ kvs[k] # <<>>
    /\ lockedBy[k] = NoProc
    /\ kvs' = [kvs EXCEPT ![k] = <<>>]
    /\ deletes' = deletes + 1
    /\ UNCHANGED <<rate, driver, dialect, Test, clock, lockedBy, rds, pc, req, ctx, idx, now,
                   timeBase, timeToAct, ok, kv, tx, ret, errs, last, faults>>

\* Nothing stored, nobody calling.
Fresh ==
    /\ clock = Epoch
    /\ kvs = [k \in Keys |-> <<>>]
    /\ lockedBy = [k \in Keys |-> NoProc]
    /\ rds = [k \in Keys |-> <<>>]
    /\ pc = [p \in Procs |-> "idle"]
    /\ req = [p \in Procs |-> NoRequest]
    /\ ctx = [p \in Procs |-> NoContext]
    /\ idx = [p \in Procs |-> 0]
    /\ now = [p \in Procs |-> ZeroTime]
    /\ timeBase = [p \in Procs |-> ZeroTime]
    /\ timeToAct = [p \in Procs |-> ZeroTime]
    /\ ok = [p \in Procs |-> FALSE]
    /\ kv = [p \in Procs |-> NoKV]
    /\ tx = [p \in Procs |-> <<>>]
    /\ ret = [p \in Procs |-> <<>>]
    /\ errs = [p \in Procs |-> <<>>]
    /\ last = [k \in Keys |-> <<>>]
    /\ faults = 0
    /\ deletes = 0
    /\ model = [k \in Keys |-> <<>>]
    /\ expect = [p \in Procs |-> <<>>]
    /\ calls = 0
    /\ facade = [p \in Procs |-> <<>>]
    /\ called = [p \in Procs |-> <<>>]
    /\ admitted = [k \in Keys |-> <<>>]

\* The database of the tests is PostgreSQL.
Init ==
    /\ rate \in [DurationPerToken : Durations, Burst : 1..MaxBurst]
    /\ driver \in {"gorm", "redis", "lua"}
    /\ dialect = "postgres"
    /\ Test \in (IF driver = "gorm" THEN BOOLEAN ELSE {FALSE})
    /\ Fresh

\* What a driver answers to request r served at instant n when the key holds
\* `stored` and the store's clock reads clk: the steps of the call in order.
Answer(d, stored, clk, r, n) ==
    IF d = "gorm"
    THEN LET base == IF stored = <<>> THEN resetValue(n, r)
                     ELSE clampTimeBase(ParseInt(stored[1]).val, n, r)
             t == addTokens(base, r)
         IN  [OK |-> ~tooLate(t, n, r), TimeToAct |-> t]
    ELSE LET reply == IF d = "redis" THEN redisScript(stored, scriptArgs(r, n)).reply
                      ELSE luaScript(stored, clk, scriptArgs(r, n)).reply
         IN  [OK |-> reply[1] = 0, TimeToAct |-> TimeUnixMicro(reply[2])]

\* The value the key of the running driver holds.
Stored(k) == IF driver = "gorm" THEN kvs[k] ELSE rds[k]

\* ------------------------------------------- the sequential model
\* The instant a stored value stands for, absent when there is none.
StoredInstant(v) == IF v = <<>> THEN <<>> ELSE <<TimeUnixMicro(ParseInt(v[1]).val)>>

\* timeBase and timeToAct of the schedule for a request r served at instant
\* n on the time base `base` (<<>> when the key is absent), and its verdict.
ScheduleBase(base, n, r) ==
    IF base = <<>> THEN n - r.Burst * r.DurationPerToken
    ELSE Max(base[1], n - r.Burst * r.DurationPerToken)

ScheduleTimeToAct(base, n, r) == ScheduleBase(base, n, r) + r.Tokens * r.DurationPerToken

ScheduleAdmits(base, n, r) == ScheduleTimeToAct(base, n, r) <= n + r.MaxFutureReserve

\* The histories a specification does not keep.
NoModel == UNCHANGED <<model, expect, calls, facade, called, admitted>>

\* One caller at a time, every driver, every input.
Next ==
    \/ \E r \in Requests({ZeroTime}), c \in Contexts : GormReserve(1, r, c) /\ NoModel
    \/ GormQuery(1) /\ NoModel
    \/ GormCreate(1) /\ NoModel
    \/ GormUpdate(1) /\ NoModel
    \/ GormCommit(1) /\ GormRecord(1) /\ NoModel
    \/ \E r \in Requests({ZeroTime} \cup Instants), c \in ScriptContexts :
           RedisReserve(1, r, c) /\ NoModel
    \/ \E r \in Requests({ZeroTime} \cup Instants), c \in ScriptContexts :
           LuaReserve(1, r, c) /\ NoModel
    \/ Return(1) /\ NoModel
    \/ Tick /\ NoModel

Spec == Init /\ [][Next]_vars

\* Callers racing on the GORM driver, with storage failures and cleanup.
RaceInit ==
    /\ Init
    /\ driver = "gorm"
    /\ Test = FALSE
    /\ rate.Burst = MaxBurst

RaceNext ==
    \/ \E p \in Procs, r \in RaceRequests : GormReserve(p, r, NoContext) /\ NoModel
    \/ \E p \in Procs : GormQuery(p) /\ NoModel
    \/ \E p \in Procs : GormCreate(p) /\ NoModel
    \/ \E p \in Procs : GormUpdate(p) /\ NoModel
    \/ \E p \in Procs : GormStorageError(p) /\ NoModel
    \/ \E p \in Procs : GormCommit(p) /\ UNCHANGED last /\ NoModel
    \/ \E p \in Procs : Return(p) /\ NoModel
    \/ Tick /\ NoModel
    \/ \E k \in Keys : DeleteRow(k) /\ NoModel

RaceSpec == RaceInit /\ [][RaceNext]_vars

\* History: caller p's commit is where its call takes effect; the sequential
\* model serves the same request at the same instant on its own time base.
Linearize(p) ==
    LET k == req[p].Key
        t == ScheduleTimeToAct(model[k], now[p], req[p])
        admits == ScheduleAdmits(model[k], now[p], req[p])
    IN  /\ model' = [model EXCEPT ![k] = IF admits THEN <<t>> ELSE @]
        /\ expect' = [expect EXCEPT ![p] =
                         <<[OK |-> admits, TimeToAct |-> t, before |-> kvs[k]]>>]

\* Callers racing on the GORM driver beside the sequential model.
LinNext ==
    \/ \E p \in Procs, r \in RaceRequests : GormReserve(p, r, NoContext) /\ NoModel
    \/ \E p \in Procs : GormQuery(p) /\ NoModel
    \/ \E p \in Procs : GormCreate(p) /\ NoModel
    \/ \E p \in Procs : GormUpdate(p) /\ NoModel
    \/ \E p \in Procs : GormCommit(p) /\ Linearize(p) /\ UNCHANGED <<last, calls, facade, called, admitted>>
    \/ \E p \in Procs :
           /\ Return(p)
           /\ expect' = [expect EXCEPT ![p] = <<>>]
           /\ UNCHANGED <<model, calls, facade, called, admitted>>
    \/ Tick /\ NoModel

LinSpec == RaceInit /\ [][LinNext]_vars

\* Callers on the store's clock contending for the row of one key, on each
\* dialect, the waits for the row lock made explicit.
LockInit ==
    /\ rate \in [DurationPerToken : Durations, Burst : 1..MaxBurst]
    /\ driver = "gorm"
    /\ dialect \in Dialects
    /\ Test = FALSE
    /\ Fresh

LockNext ==
    \/ \E p \in Procs, t \in 1..rate.Burst :
           GormReserve(p, Request("a", ZeroTime, t, 0), NoContext) /\ NoModel
    \/ \E p \in Procs : GormQuery(p) /\ NoModel
    \/ \E p \in Procs : GormWait(p) /\ NoModel
    \/ \E p \in Procs : GormGranted(p) /\ NoModel
    \/ \E p \in Procs : GormCreate(p) /\ NoModel
    \/ \E p \in Procs : GormUpdate(p) /\ NoModel
    \/ \E p \in Procs : GormCommit(p) /\ UNCHANGED last /\ NoModel
    \/ \E p \in Procs : Return(p) /\ NoModel
    \/ Tick /\ NoModel

LockSpec == LockInit /\ [][LockNext]_vars

\* A burst: one caller asks for one token with no future reserve, again and
\* again at one instant on a fresh key, Burst + 1 times.
BurstRequest(n) == Request("a", n, 1, 0)

AtBurstInstant(n) == \A k \in Keys : last[k] # <<>> => last[k][1].now = n

Completed == calls' = calls + 1 /\ UNCHANGED <<model, expect, facade, called, admitted>>

BurstNext ==
    \/ \E c \in Contexts :
           /\ ~c.done
           /\ calls <= rate.Burst
           /\ AtBurstInstant(IF Test /\ c.hasNowFunc THEN c.nowFunc
                             ELSE TimeUnixMicro(clock))
           /\ GormReserve(1, BurstRequest(ZeroTime), c)
           /\ NoModel
    \/ GormQuery(1) /\ NoModel
    \/ GormCreate(1) /\ NoModel
    \/ GormUpdate(1) /\ NoModel
    \/ GormCommit(1) /\ GormRecord(1) /\ Completed
    \/ \E n \in Instants :
           /\ calls <= rate.Burst
           /\ AtBurstInstant(n)
           /\ RedisReserve(1, BurstRequest(n), NoContext)
           /\ Completed
    \/ \E n \in Instants \cup {ZeroTime} :
           /\ calls <= rate.Burst
           /\ AtBurstInstant(IF IsZero(n) THEN TimeUnixMicro(clock) ELSE n)
           /\ LuaReserve(1, BurstRequest(n), NoContext)
           /\ Completed
    \/ Return(1) /\ NoModel

BurstSpec == Init /\ [][BurstNext]_vars

\* The example of the package: every 10 minutes, burst 5, one token per call
\* with no future reserve, at explicit instants so many minutes after the
\* start. A minute is scaled down to Minute.
Minute == 2 * Micro

\* The minute offsets of the calls and what each call answers: 0 for
\* "allowed", else the minutes of "you can retry after".
ExampleTrace ==
    <<<<0, 0>>, <<1, 0>>, <<2, 0>>, <<3, 0>>, <<4, 0>>,
      <<5, 5>>, <<6, 4>>, <<7, 3>>, <<8, 2>>, <<9, 1>>,
      <<10, 0>>,
      <<11, 9>>, <<12, 8>>, <<13, 7>>, <<14, 6>>, <<15, 5>>, <<16, 4>>, <<17, 3>>,
      <<18, 2>>, <<19, 1>>,
      <<20, 0>>,
      <<45, 0>>, <<46, 0>>, <<47, 3>>, <<48, 2>>, <<49, 1>>,
      <<155, 0>>, <<156, 0>>, <<157, 0>>, <<158, 0>>, <<159, 0>>,
      <<160, 5>>, <<161, 4>>, <<162, 3>>, <<163, 2>>, <<164, 1>>>>

\* now := time.Now(): on a whole microsecond or not.
ExampleStarts == {Epoch * Micro + 50 * Minute, Epoch * Micro + 50 * Minute + 500}

\* The instant of the next call of the example that started at n0; the
\* calls so far were served on the same schedule.
ExampleNow(n0) == n0 + ExampleTrace[calls + 1][1] * Minute

OnSchedule(n0) ==
    /\ calls < Len(ExampleTrace)
    /\ calls > 0 => /\ last["a"] # <<>>
                    /\ last["a"][1].now = n0 + ExampleTrace[calls][1] * Minute

ExampleInit ==
    /\ rate = [DurationPerToken |-> 10 * Minute, Burst |-> 5]
    /\ driver \in {"gorm", "redis", "lua"}
    /\ dialect = "postgres"
    /\ Test = (driver = "gorm")
    /\ Fresh

\* The GORM driver is given the instant by the context's clock override, the
\* script drivers by the request.
ExampleNext ==
    \/ \E n0 \in ExampleStarts :
           /\ OnSchedule(n0)
           /\ GormReserve(1, Request("a", ExampleNow(n0), 1, 0),
                  [hasNowFunc |-> TRUE, nowFunc |-> ExampleNow(n0), done |-> FALSE])
           /\ NoModel
    \/ GormQuery(1) /\ NoModel
    \/ GormCreate(1) /\ NoModel
    \/ GormUpdate(1) /\ NoModel
    \/ GormCommit(1) /\ GormRecord(1) /\ Completed
    \/ \E n0 \in ExampleStarts :
           /\ OnSchedule(n0)
           /\ RedisReserve(1, Request("a", ExampleNow(n0), 1, 0), NoContext)
           /\ Completed
    \/ \E n0 \in ExampleStarts :
           /\ OnSchedule(n0)
           /\ LuaReserve(1, Request("a", ExampleNow(n0), 1, 0), NoContext)
           /\ Completed
    \/ Return(1) /\ NoModel

ExampleSpec == ExampleInit /\ [][ExampleNext]_vars

\* Where the drivers take `now` from: one caller asks for one token with no
\* future reserve, with and without Now in the request, with and without
\* the clock override in the context, in and out of test mode, while the
\* store's clock advances.
ClockRequests == {Request("a", n, 1, 0) : n \in {ZeroTime} \cup Instants}

ClockNext ==
    \/ \E r \in ClockRequests, c \in Contexts : GormReserve(1, r, c) /\ NoModel
    \/ GormQuery(1) /\ NoModel
    \/ GormCreate(1) /\ NoModel
    \/ GormUpdate(1) /\ NoModel
    \/ GormCommit(1) /\ GormRecord(1) /\ NoModel
    \/ \E r \in ClockRequests : RedisReserve(1, r, NoContext) /\ NoModel
    \/ \E r \in ClockRequests : LuaReserve(1, r, NoContext) /\ NoModel
    \/ Return(1) /\ NoModel
    \/ Tick /\ NoModel

ClockSpec == Init /\ [][ClockNext]_vars

\* --------------------------------------------------- RateLimiter.Allow
AllowRequest(k, n, t) ==
    [Key |-> k, DurationPerToken |-> rate.DurationPerToken, Burst |-> rate.Burst,
     Now |-> n, Tokens |-> t]

\* Allow requests, those for more tokens than the burst included.
AllowRequests(nows) ==
    {AllowRequest(k, n, t) : k \in OneKey, n \in nows, t \in 1..(rate.Burst + 1)}

\* a request built with some future reserve
reserveReqWithReserve(a) ==
    [Key |-> a.Key, DurationPerToken |-> a.DurationPerToken, Burst |-> a.Burst,
     Now |-> a.Now, Tokens |-> a.Tokens, MaxFutureReserve |-> Micro]

\* The ReserveRequest Allow builds (part_000 lines 82-89).
reserveReq(a) ==
    [Key |-> a.Key, DurationPerToken |-> a.DurationPerToken, Burst |-> a.Burst,
     Now |-> a.Now, Tokens |-> a.Tokens, MaxFutureReserve |-> 0]

\* What Allow returns for what Reserve returned (lines 91-95).
allowResult(res) == IF res.err # "nil" THEN <<FALSE, res.err>> ELSE <<res.r[1].OK, "nil">>

\* Allow is called: it is in its call of Reserve.
AllowCall(p, a) == facade' = [facade EXCEPT ![p] = <<[req |-> a, out |-> <<>>]>>]

\* Reserve has returned to Allow, which returns.
AllowReturn(p) ==
    /\ pc[p] = "done"
    /\ facade[p] # <<>>
    /\ facade[p][1].out = <<>>
    /\ facade' = [facade EXCEPT ![p] = <<[@[1] EXCEPT !.out = <<allowResult(ret[p][1])>>]>>]
    /\ UNCHANGED <<rate, driver, dialect, Test, clock, kvs, lockedBy, rds, pc, req, ctx, idx,
                   now, timeBase, timeToAct, ok, kv, tx, ret, errs, last, faults, deletes,
                   model, expect, calls, called, admitted>>

\* One caller at a time calls Allow on each driver.
AllowNext ==
    \/ \E a \in AllowRequests({ZeroTime}), c \in Contexts :
           /\ GormReserve(1, reserveReq(a), c)
           /\ AllowCall(1, a)
           /\ UNCHANGED <<model, expect, calls, called, admitted>>
    \/ GormQuery(1) /\ NoModel
    \/ GormCreate(1) /\ NoModel
    \/ GormUpdate(1) /\ NoModel
    \/ GormCommit(1) /\ GormRecord(1) /\ NoModel
    \/ \E a \in AllowRequests({ZeroTime} \cup Instants), c \in ScriptContexts :
           /\ RedisReserve(1, reserveReq(a), c)
           /\ AllowCall(1, a)
           /\ UNCHANGED <<model, expect, calls, called, admitted>>
    \/ \E a \in AllowRequests({ZeroTime} \cup Instants), c \in ScriptContexts :
           /\ LuaReserve(1, reserveReq(a), c)
           /\ AllowCall(1, a)
           /\ UNCHANGED <<model, expect, calls, called, admitted>>
    \/ AllowReturn(1)
    \/ /\ facade[1] # <<>> /\ facade[1][1].out # <<>>
       /\ Return(1)
       /\ facade' = [facade EXCEPT ![1] = <<>>]
       /\ UNCHANGED <<model, expect, calls, called, admitted>>
    \/ Tick /\ NoModel

AllowSpec == Init /\ [][AllowNext]_vars

\* ------------------------------------------- methods of a Reservation
\* Instants a caller asks about, before and after every TimeToAct.
MethodInstants == {Epoch * Micro + d : d \in {0 - 2000, 0, 500, 1500, 4000}}

\* Reservation.Delay and Reservation.RetryAfter: the From method at
\* time.Now(), the caller's clock reading `wall`.
Delay(rv, wall) == DelayFrom(rv, wall)

RetryAfter(rv, wall) == RetryAfterFrom(rv, wall)

\* Caller p called method `name` with instant t on the Reservation it was
\* returned: the method returned res.d, or it panicked, which halts p.
Called(p, name, t, res) ==
    /\ called' = [called EXCEPT ![p] =
                     <<[method |-> name, t |-> t, rv |-> ret[p][1].r[1],
                        out |-> IF res.panic THEN <<>> ELSE <<res.d>>]>>]
    /\ pc' = [pc EXCEPT ![p] = IF res.panic THEN "panic" ELSE "done"]
    /\ UNCHANGED <<rate, driver, dialect, Test, clock, kvs, lockedBy, rds, req, ctx, idx,
                   now, timeBase, timeToAct, ok, kv, tx, ret, errs, last, faults, deletes,
                   model, expect, calls, facade, admitted>>

HasReservation(p) == pc[p] = "done" /\ ret[p][1].err = "nil" /\ called[p] = <<>>

CallDelayFrom(p, t) ==
    HasReservation(p) /\ Called(p, "DelayFrom", t, DelayFrom(ret[p][1].r[1], t))

CallDelay(p, wall) ==
    HasReservation(p) /\ Called(p, "Delay", wall, Delay(ret[p][1].r[1], wall))

CallRetryAfterFrom(p, t) ==
    HasReservation(p) /\ Called(p, "RetryAfterFrom", t, RetryAfterFrom(ret[p][1].r[1], t))

CallRetryAfter(p, wall) ==
    HasReservation(p) /\ Called(p, "RetryAfter", wall, RetryAfter(ret[p][1].r[1], wall))

\* Valid requests with every future reserve, on a live context.
MethodRequests(nows) ==
    {Request(k, n, t, m) : k \in OneKey, n \in nows, t \in 1..rate.Burst, m \in Reserves}

\* One caller reserves on each driver and calls a method on the Reservation.
MethodNext ==
    \/ \E r \in MethodRequests({ZeroTime}), c \in Contexts :
           ~c.done /\ GormReserve(1, r, c) /\ NoModel
    \/ GormQuery(1) /\ NoModel
    \/ GormCreate(1) /\ NoModel
    \/ GormUpdate(1) /\ NoModel
    \/ GormCommit(1) /\ GormRecord(1) /\ NoModel
    \/ \E r \in MethodRequests(Instants) : RedisReserve(1, r, NoContext) /\ NoModel
    \/ \E r \in MethodRequests(Instants) : LuaReserve(1, r, NoContext) /\ NoModel
    \/ \E t \in MethodInstants : CallDelayFrom(1, t)
    \/ \E wall \in MethodInstants : CallDelay(1, wall)
    \/ \E t \in MethodInstants : CallRetryAfterFrom(1, t)
    \/ \E wall \in MethodInstants : CallRetryAfter(1, wall)
    \/ /\ Return(1)
       /\ called' = [called EXCEPT ![1] = <<>>]
       /\ UNCHANGED <<model, expect, calls, facade, admitted>>
    \/ Tick /\ NoModel

MethodSpec == Init /\ [][MethodNext]_vars

\* ------------------------------------------------- failing transactions
\* A value no ParseInt accepts.
Unparseable == <<"x">>

\* Something outside the library overwrites the value of a row no
\* transaction holds.
Corrupt(k) ==
    /\ kvs[k] # <<>>
    /\ kvs[k] # <<Unparseable>>
    /\ lockedBy[k] = NoProc
    /\ kvs' = [kvs EXCEPT ![k] = <<Unparseable>>]
    /\ UNCHANGED <<rate, driver, dialect, Test, clock, lockedBy, rds, pc, req, ctx, idx, now,
                   timeBase, timeToAct, ok, kv, tx, ret, errs, last, faults, deletes>>

\* Callers racing on the GORM driver while storage operations fail, rows
\* are deleted and a value is overwritten.
FailNext ==
    \/ \E p \in Procs, t \in 1..rate.Burst :
           GormReserve(p, Request("a", ZeroTime, t, 0), NoContext) /\ NoModel
    \/ \E p \in Procs : GormQuery(p) /\ NoModel
    \/ \E p \in Procs : GormCreate(p) /\ NoModel
    \/ \E p \in Procs : GormUpdate(p) /\ NoModel
    \/ \E p \in Procs : GormStorageError(p) /\ NoModel
    \/ \E p \in Procs : GormCommit(p) /\ UNCHANGED last /\ NoModel
    \/ \E p \in Procs : Return(p) /\ NoModel
    \/ Tick /\ NoModel
    \/ \E k \in OneKey : DeleteRow(k) /\ NoModel
    \/ \E k \in OneKey : Corrupt(k) /\ NoModel

FailSpec == RaceInit /\ [][FailNext]_vars

\* ------------------------------------------------------- several keys
KeyInit == Init /\ Test = FALSE /\ rate.Burst = 1

\* Callers on the store's clock reserve on one key or another, with storage
\* failures on the GORM driver; the script drivers serve one call at a time.
KeyNext ==
    \/ \E p \in Procs, k \in Keys, t \in 1..(rate.Burst + 1) :
           GormReserve(p, Request(k, ZeroTime, t, 0), NoContext) /\ NoModel
    \/ \E p \in Procs : GormQuery(p) /\ NoModel
    \/ \E p \in Procs : GormWait(p) /\ NoModel
    \/ \E p \in Procs : GormGranted(p) /\ NoModel
    \/ \E p \in Procs : GormCreate(p) /\ NoModel
    \/ \E p \in Procs : GormUpdate(p) /\ NoModel
    \/ \E p \in Procs : GormStorageError(p) /\ NoModel
    \/ \E p \in Procs : GormCommit(p) /\ UNCHANGED last /\ NoModel
    \/ \E k \in Keys, n \in Instants, t \in 1..(rate.Burst + 1) :
           RedisReserve(1, Request(k, n, t, 0), NoContext) /\ NoModel
    \/ \E k \in Keys, n \in Instants, t \in 1..(rate.Burst + 1) :
           LuaReserve(1, Request(k, n, t, 0), NoContext) /\ NoModel
    \/ \E p \in Procs : Return(p) /\ NoModel
    \/ Tick /\ NoModel

KeySpec == KeyInit /\ [][KeyNext]_vars

\* ------------------------------------------------ one driver, then another
\* New(driver): the RateLimiter wraps driver d from now on.
New(d) ==
    /\ driver' = d
    /\ UNCHANGED <<rate, dialect, Test, clock, kvs, lockedBy, rds, pc, req, ctx, idx, now,
                   timeBase, timeToAct, ok, kv, tx, ret, errs, last, faults, deletes>>

\* Instants on whole microseconds.
DiffInstants == {TimeUnixMicro(Epoch + i) : i \in 0..MaxTicks}

DiffInit ==
    /\ rate \in [DurationPerToken : Durations, Burst : 1..MaxBurst]
    /\ driver = "gorm"
    /\ dialect = "postgres"
    /\ Test = TRUE
    /\ Fresh

\* The same valid requests at the same instants go to the GORM driver
\* (caller 1, the instant given by the context's clock override) and then to
\* the Redis driver (caller 2), each on its own store, both empty at first.
DiffNext ==
    \/ \E r \in MethodRequests(DiffInstants) :
           /\ pc[2] = "idle"
           /\ GormReserve(1, r, [hasNowFunc |-> TRUE, nowFunc |-> r.Now, done |-> FALSE])
           /\ NoModel
    \/ GormQuery(1) /\ NoModel
    \/ GormCreate(1) /\ NoModel
    \/ GormUpdate(1) /\ NoModel
    \/ GormCommit(1) /\ GormRecord(1) /\ NoModel
    \/ pc[1] = "done" /\ driver = "gorm" /\ New("redis") /\ NoModel
    \/ pc[1] = "done" /\ RedisReserve(2, req[1], NoContext) /\ NoModel
    \/ pc[2] = "done" /\ Return(1) /\ NoModel
    \/ pc[1] = "idle" /\ Return(2) /\ NoModel
    \/ pc[2] = "idle" /\ driver = "redis" /\ New("gorm") /\ NoModel

DiffSpec == DiffInit /\ [][DiffNext]_vars

\* ------------------------------------------------------ the rate over time
\* No call on any key was served at an instant after n.
NotBefore(n) == \A k \in Keys : last[k] # <<>> => last[k][1].now <= n

\* History: caller p's call on key k has returned; if it was admitted, the
\* instant it was served at and its tokens are kept.
Admit(p, k) ==
    /\ admitted' = [admitted EXCEPT ![k] =
                       IF ret'[p][1].err = "nil" /\ ret'[p][1].r[1].OK
                       THEN Append(@, <<last'[k][1].now, last'[k][1].req.Tokens>>)
                       ELSE @]
    /\ calls' = calls + 1
    /\ UNCHANGED <<model, expect, facade, called>>

\* One caller at a time reserves with no future reserve at instants that
\* never go back, on each driver, with a fixed rate.
RateNext ==
    \/ \E t \in 1..rate.Burst, c \in Contexts :
           /\ ~c.done
           /\ calls < MaxCalls
           /\ NotBefore(IF Test /\ c.hasNowFunc THEN c.nowFunc ELSE TimeUnixMicro(clock))
           /\ GormReserve(1, Request("a", ZeroTime, t, 0), c)
           /\ NoModel
    \/ GormQuery(1) /\ NoModel
    \/ GormCreate(1) /\ NoModel
    \/ GormUpdate(1) /\ NoModel
    \/ GormCommit(1) /\ GormRecord(1) /\ Admit(1, req[1].Key)
    \/ \E t \in 1..rate.Burst, n \in Instants :
           /\ calls < MaxCalls
           /\ NotBefore(n)
           /\ RedisReserve(1, Request("a", n, t, 0), NoContext)
           /\ Admit(1, "a")
    \/ \E t \in 1..rate.Burst, n \in Instants \cup {ZeroTime} :
           /\ NotBefore(IF IsZero(n) THEN TimeUnixMicro(clock) ELSE n)
           /\ calls < MaxCalls
           /\ LuaReserve(1, Request("a", n, t, 0), NoContext)
           /\ Admit(1, "a")
    \/ Return(1) /\ NoModel
    \/ Tick /\ NoModel

RateSpec == Init /\ [][RateNext]_vars

\* A burst after an idle period: the key is used once, the store's clock
\* advances, and once the stored time base is at or below now - Burst*D one
\* caller asks for one token with no future reserve, Burst + 1 times at one
\* instant. calls counts the calls of the burst.
IdleBurstAt(n) ==
    /\ Stored("a") # <<>>
    /\ calls <= rate.Burst
    /\ IF calls = 0
       THEN StoredInstant(Stored("a"))[1] <= n - rate.Burst * rate.DurationPerToken
       ELSE last["a"][1].now = n

\* The instants a caller of the script drivers may name: those of the other
\* scenarios and the latest whole microsecond of the store's clock.
IdleInstants == Instants \cup {TimeUnixMicro(Epoch + MaxTicks)}

IdleNext ==
    \/ \E c \in Contexts, t \in 1..rate.Burst :
           /\ ~c.done
           /\ kvs["a"] = <<>>
           /\ GormReserve(1, Request("a", ZeroTime, t, 0), c)
           /\ NoModel
    \/ \E c \in Contexts :
           /\ ~c.done
           /\ IdleBurstAt(IF Test /\ c.hasNowFunc THEN c.nowFunc
                          ELSE TimeUnixMicro(clock))
           /\ GormReserve(1, BurstRequest(ZeroTime), c)
           /\ NoModel
    \/ GormQuery(1) /\ NoModel
    \/ GormCreate(1) /\ NoModel
    \/ GormUpdate(1) /\ NoModel
    \/ kvs["a"] = <<>> /\ GormCommit(1) /\ GormRecord(1) /\ NoModel
    \/ kvs["a"] # <<>> /\ GormCommit(1) /\ GormRecord(1) /\ Completed
    \/ \E n \in IdleInstants, t \in 1..rate.Burst :
           /\ rds["a"] = <<>>
           /\ RedisReserve(1, Request("a", n, t, 0), NoContext)
           /\ NoModel
    \/ \E n \in IdleInstants :
           /\ IdleBurstAt(n)
           /\ RedisReserve(1, BurstRequest(n), NoContext)
           /\ Completed
    \/ \E n \in IdleInstants \cup {ZeroTime}, t \in 1..rate.Burst :
           /\ rds["a"] = <<>>
           /\ LuaReserve(1, Request("a", n, t, 0), NoContext)
           /\ NoModel
    \/ \E n \in IdleInstants \cup {ZeroTime} :
           /\ IdleBurstAt(IF IsZero(n) THEN TimeUnixMicro(clock) ELSE n)
           /\ LuaReserve(1, BurstRequest(n), NoContext)
           /\ Completed
    \/ Return(1) /\ NoModel
    \/ pc[1] = "idle" /\ calls = 0 /\ Tick /\ NoModel

IdleSpec == Init /\ [][IdleNext]_vars

\* Callers of the GORM driver on one key within one reading of the store's
\* clock, with storage failures and cleanup, under the scheduling of the
\* database: a statement that waits for nothing
\* completes (RunsOn), and a statement that waits for the row of another
\* transaction completes once that transaction has ended, since the lock
\* manager serves the waiter before a later transaction (WaitsOn).
LiveNext ==
    \/ \E p \in Procs, t \in 1..rate.Burst :
           GormReserve(p, Request("a", ZeroTime, t, 0), NoContext) /\ NoModel
    \/ \E p \in Procs : GormQuery(p) /\ NoModel
    \/ \E p \in Procs : GormWait(p) /\ NoModel
    \/ \E p \in Procs : GormGranted(p) /\ NoModel
    \/ \E p \in Procs : GormCreate(p) /\ NoModel
    \/ \E p \in Procs : GormUpdate(p) /\ NoModel
    \/ \E p \in Procs : GormStorageError(p) /\ NoModel
    \/ \E p \in Procs : GormCommit(p) /\ UNCHANGED last /\ NoModel
    \/ \E p \in Procs : Return(p) /\ NoModel
    \/ \E k \in Keys : DeleteRow(k) /\ NoModel

RunsOn(p) ==
    \/ GormQuery(p) /\ NoModel
    \/ GormWait(p) /\ NoModel
    \/ GormUpdate(p) /\ NoModel
    \/ GormCommit(p) /\ UNCHANGED last /\ NoModel

WaitsOn(p) ==
    \/ GormGranted(p) /\ NoModel
    \/ GormCreate(p) /\ NoModel

LiveSpec ==
    /\ RaceInit
    /\ [][LiveNext]_vars
    /\ \A p \in Procs : WF_vars(RunsOn(p)) /\ SF_vars(WaitsOn(p))

\* ------------------------------------------------------------ claims
\* C1: every decided call returns TimeToAct = max(base, now - Burst*D) +
\* Tokens*D (now - Burst*D + Tokens*D on an absent key), and OK holds exactly
\* when TimeToAct <= now + MaxFutureReserve.
C1_ScheduleFormula ==
    \A k \in Keys : last[k] # <<>> =>
        LET c == last[k][1]
        IN  /\ c.TimeToAct = ScheduleTimeToAct(StoredInstant(c.before), c.now, c.req)
            /\ c.OK <=> c.TimeToAct <= c.now + c.req.MaxFutureReserve

\* C2: after a call that returned OK, the key's stored value is the returned
\* TimeToAct counted in microseconds.
C2_StoredIsTimeToAct ==
    \A k \in Keys : (last[k] # <<>> /\ last[k][1].OK) =>
        /\ last[k][1].after # <<>>
        /\ ParseInt(last[k][1].after[1]) =
               [err |-> FALSE, val |-> UnixMicro(last[k][1].TimeToAct)]

C2_Witness ==
    \E k \in Keys :
        /\ last[k] # <<>> /\ last[k][1].OK
        /\ last[k][1].before # <<>>
        /\ last[k][1].after # last[k][1].before
        /\ last[k][1].TimeToAct % Micro # 0

\* C3: a call that returned OK = false leaves the key's stored state, its
\* existence included, as it was.
C3_RejectedWritesNothing ==
    \A k \in Keys : (last[k] # <<>> /\ ~last[k][1].OK) =>
        last[k][1].after = last[k][1].before

\* C4: the stored time base of a key never decreases.
C4_StoredNeverDecreases ==
    [][\A k \in Keys :
          /\ (kvs[k] # <<>> /\ kvs'[k] # <<>>) =>
                 ParseInt(kvs'[k][1]).val >= ParseInt(kvs[k][1]).val
          /\ (rds[k] # <<>> /\ rds'[k] # <<>>) =>
                 ParseInt(rds'[k][1]).val >= ParseInt(rds[k][1]).val]_vars

C4_Witness ==
    \E k \in Keys :
        /\ last[k] # <<>>
        /\ last[k][1].before # <<>>
        /\ last[k][1].OK
        /\ TimeUnixMicro(ParseInt(last[k][1].before[1]).val) > last[k][1].now

\* C5: whatever the interleaving, every call returns the OK and TimeToAct the
\* sequential model gives when the calls are applied in the order of their
\* commits, and the stored time base is the model's.
C5_Linearizable ==
    /\ \A p \in Procs : (pc[p] = "done" /\ expect[p] # <<>>) =>
           /\ ret[p][1].err = "nil"
           /\ ret[p][1].r[1].OK = expect[p][1].OK
           /\ ret[p][1].r[1].TimeToAct = expect[p][1].TimeToAct
    /\ \A k \in Keys :
           IF model[k] = <<>> THEN kvs[k] = <<>>
           ELSE kvs[k] = <<FormatInt(UnixMicro(model[k][1]))>>

\* Caller p inserted the row of a fresh key and caller q, having found no row
\* either, lost the insert, retried, and was served at the same instant.
FirstUseRace(p, q) ==
    /\ p # q
    /\ pc[p] = "done" /\ pc[q] = "done"
    /\ expect[p] # <<>> /\ expect[q] # <<>>
    /\ expect[p][1].before = <<>>
    /\ errs[q] = <<"SQLSTATE 23505">>
    /\ ret[p][1].r[1].Now = ret[q][1].r[1].Now

AdmittedWithoutDelay(rv) == rv.OK /\ DelayFrom(rv, rv.Now).d = 0

\* C6: of two racing first-use calls whose tokens together exceed the burst
\* at most one is admitted without delay at the same instant; when they fit
\* the burst both are admitted, and the stored time base counts both.
C6_FirstUseRace ==
    \A p, q \in Procs : FirstUseRace(p, q) =>
        LET rp == ret[p][1].r[1]
            rq == ret[q][1].r[1]
            tokens == rp.ReserveRequest.Tokens + rq.ReserveRequest.Tokens
        IN  IF tokens > rate.Burst
            THEN ~(AdmittedWithoutDelay(rp) /\ AdmittedWithoutDelay(rq))
            ELSE /\ rp.OK /\ rq.OK
                 /\ kvs[rp.ReserveRequest.Key] = <<FormatInt(UnixMicro(
                        resetValue(rp.Now, rp.ReserveRequest)
                            + tokens * rate.DurationPerToken))>>

\* C7: a first attempt that fails on the unique key is rolled back and
\* followed by exactly one more attempt from the start; a second such failure
\* is returned without a third attempt; no other error is retried.
C7_SingleRetry ==
    \A p \in Procs :
        /\ Len(errs[p]) <= 2
        /\ idx[p] = IF errs[p] # <<>> /\ errs[p][1] = "SQLSTATE 23505" THEN 1 ELSE 0
        /\ Len(errs[p]) = 2 => (pc[p] = "done" /\ ret[p] = Failure(errs[p][2]))
        /\ (Len(errs[p]) = 1 /\ errs[p][1] # "SQLSTATE 23505") =>
               (pc[p] = "done" /\ ret[p] = Failure(errs[p][1]))
        /\ (errs[p] # <<>> /\ pc[p] \in {"query", "done"}) =>
               /\ tx[p] = <<>>
               /\ \A k \in Keys : lockedBy[k] # p
               /\ timeBase[p] = ZeroTime /\ timeToAct[p] = ZeroTime /\ ~ok[p]

C7_Witness ==
    \E p \in Procs :
        /\ pc[p] = "done"
        /\ errs[p] = <<"SQLSTATE 23505", "SQLSTATE 23505">>
        /\ ret[p] = Failure("SQLSTATE 23505")

\* C8: while no row is ever deleted, the retry after a unique-key failure
\* finds the winner's row and takes the locked-row path, and no call returns
\* a duplicate-key error.
C8_NoDuplicateKeyError ==
    deletes = 0 =>
        \A p \in Procs :
            /\ idx[p] = 1 => pc[p] # "create"
            /\ pc[p] = "done" => ret[p][1].err # "SQLSTATE 23505"

C8_Witness ==
    \E p \in Procs :
        /\ deletes = 0
        /\ pc[p] = "done"
        /\ errs[p] = <<"SQLSTATE 23505">>
        /\ ret[p][1].err = "nil"
        /\ ret[p][1].r[1].OK

\* C9: on a fresh key, the first Burst one-token calls without future
\* reserve at one instant are admitted, and call Burst + 1 at that instant
\* is rejected with RetryAfterFrom(now) = DurationPerToken.
C9_BurstThenRetryAfterD ==
    (pc[1] = "done" /\ calls >= 1) =>
        /\ ret[1][1].err = "nil"
        /\ calls <= rate.Burst => ret[1][1].r[1].OK
        /\ calls = rate.Burst + 1 =>
               /\ ~ret[1][1].r[1].OK
               /\ RetryAfterFrom(ret[1][1].r[1], last["a"][1].now).d
                      = rate.DurationPerToken

C11_InvalidParameters ==
    [][\A p \in Procs :
          (/\ pc[p] = "idle" /\ pc'[p] # "idle"
           /\ \/ req'[p].Key = ""
              \/ req'[p].DurationPerToken <= 0
              \/ req'[p].Burst <= 0
              \/ req'[p].Tokens <= 0
              \/ req'[p].Tokens > req'[p].Burst)
              => /\ pc'[p] = "done"
                 /\ ret'[p] = Failure("ErrInvalidParameters")
                 /\ kv'[p] = NoKV
                 /\ UNCHANGED <<kvs, rds, lockedBy, tx, errs>>]_vars

C11_Witness ==
    \E p \in Procs :
        /\ pc[p] = "done"
        /\ req[p].Key # "" /\ req[p].Tokens > req[p].Burst
        /\ ret[p] = Failure("ErrInvalidParameters")
        /\ kvs[req[p].Key] # <<>> \/ rds[req[p].Key] # <<>>

\* C12: in the example (burst 5, one token every 10 minutes, fresh key, no
\* future reserve) the calls at minute offsets 0..4 are admitted, 5..9
\* rejected with retry-after 5,4,3,2,1 minutes, 10 admitted, 11..19 rejected
\* with 9..1, 20 admitted; 45 and 46 admitted, 47..49 rejected with 3,2,1;
\* 155..159 admitted and 160..164 rejected with 5,4,3,2,1, on every driver.
C12_ExampleTrace ==
    (pc[1] = "done" /\ calls >= 1) =>
        /\ ret[1][1].err = "nil"
        /\ ret[1][1].r[1].OK <=> ExampleTrace[calls][2] = 0
        /\ ~ret[1][1].r[1].OK =>
               RetryAfterFrom(ret[1][1].r[1], last["a"][1].now).d
                   = ExampleTrace[calls][2] * Minute

\* C13: on the same key state, now, D, burst and tokens, a request admitted
\* with MaxFutureReserve M1 is admitted with every M2 >= M1 and with the
\* same TimeToAct; and a request whose TimeToAct is after now is admitted
\* exactly when TimeToAct <= now + MaxFutureReserve.
C13_MaxFutureReserve ==
    \A k \in Keys, n \in Instants, t \in 1..rate.Burst, m1, m2 \in Reserves :
        LET a1 == Answer(driver, Stored(k), clock, Request(k, n, t, m1), n)
            a2 == Answer(driver, Stored(k), clock, Request(k, n, t, m2), n)
        IN  /\ (m1 <= m2 /\ a1.OK) => (a2.OK /\ a2.TimeToAct = a1.TimeToAct)
            /\ a1.TimeToAct > n => (a1.OK <=> a1.TimeToAct <= n + m1)

\* C14 as stated: a call whose context is already done returns the
\* cancellation error and no Reservation in its first step, without a
\* transaction or a script run, and the store is unchanged.
C14_Cancelled ==
    [][\A p \in Procs :
          (pc[p] = "idle" /\ pc'[p] # "idle" /\ ctx'[p].done)
              => /\ pc'[p] = "done"
                 /\ ret'[p] = Failure("context done")
                 /\ kv'[p] = NoKV
                 /\ UNCHANGED <<kvs, rds, lockedBy, tx, errs>>]_vars

\* C14: a call whose context is already done and whose request passes the
\* driver's validation (on the Redis driver that includes a non-zero Now)
\* returns the cancellation error and no Reservation in its first step,
\* without a transaction or a script run, and the store is unchanged.
C14_CancelledValidRequest ==
    [][\A p \in Procs :
          (/\ pc[p] = "idle" /\ pc'[p] # "idle" /\ ctx'[p].done
           /\ req'[p].Key # ""
           /\ req'[p].DurationPerToken > 0
           /\ req'[p].Burst > 0
           /\ req'[p].Tokens > 0
           /\ req'[p].Tokens <= req'[p].Burst
           /\ driver = "redis" => req'[p].Now # ZeroTime)
              => /\ pc'[p] = "done"
                 /\ ret'[p] = Failure("context done")
                 /\ kv'[p] = NoKV
                 /\ UNCHANGED <<kvs, rds, lockedBy, tx, errs>>]_vars

C14_Witness ==
    \E p \in Procs :
        /\ pc[p] = "done"
        /\ ctx[p].done
        /\ ~InvalidParameters(req[p])
        /\ ret[p] = Failure("context done")
        /\ kvs[req[p].Key] # <<>> \/ rds[req[p].Key] # <<>>

\* C15: a call on a script driver whose request has a zero Now returns a
\* Reservation and no error, and its OK and TimeToAct are those of the same
\* request served at the store's clock.
C15_StoreClock ==
    [][\A p \in Procs :
          (/\ pc[p] = "idle" /\ pc'[p] # "idle"
           /\ driver \in {"redis", "lua"}
           /\ ~InvalidParameters(req'[p])
           /\ IsZero(req'[p].Now)
           /\ ~ctx'[p].done)
              => LET n == TimeUnixMicro(clock)
                     a == Answer(driver, rds[req'[p].Key], clock,
                                 [req'[p] EXCEPT !.Now = n], n)
                 IN  /\ ret'[p] # <<>>
                     /\ ret'[p][1].err = "nil"
                     /\ ret'[p][1].r[1].OK = a.OK
                     /\ ret'[p][1].r[1].TimeToAct = a.TimeToAct]_vars

\* C16: a call whose request carries a non-zero Now is decided with that
\* value as now, for the reset floor and for the admission test, on every
\* driver, and not with the store's clock.
C16_ExplicitNow ==
    \A k \in Keys : (last[k] # <<>> /\ ~IsZero(last[k][1].req.Now)) =>
        LET c == last[k][1]
        IN  /\ c.now = c.req.Now
            /\ Answer(c.driver, c.before, clock, c.req, c.req.Now)
                   = [OK |-> c.OK, TimeToAct |-> c.TimeToAct]

\* C17: every Reservation returned without error carries in Now the instant
\* its decision was made at: the explicit value when one was supplied (in
\* the store's microseconds on a script driver), else the store's clock as
\* read for this call.
C17_ReportsNow ==
    [][\A p \in Procs :
          (pc[p] # "done" /\ pc'[p] = "done" /\ ret'[p][1].err = "nil") =>
              ret'[p][1].r[1].Now =
                  IF driver = "gorm"
                  THEN IF Test /\ ctx[p].hasNowFunc THEN ctx[p].nowFunc ELSE kv[p].Now
                  ELSE IF IsZero(req'[p].Now) THEN TimeUnixMicro(clock)
                       ELSE TimeUnixMicro(UnixMicro(req'[p].Now))]_vars

\* C18: of the transactions that have read the row of an existing key under
\* the lock and have neither committed nor rolled back there is at most one
\* per key; another call's locked read does not complete meanwhile.
C18_OneLockedRead ==
    \A p, q \in Procs :
        (/\ pc[p] \in {"update", "commit"} /\ kv[p].Key # ""
         /\ pc[q] \in {"update", "commit"} /\ kv[q].Key # ""
         /\ kv[p].Key = kv[q].Key)
            => p = q

C18_Witness ==
    \E p, q \in Procs :
        /\ pc[p] \in {"update", "commit"} /\ kv[p].Key = "a"
        /\ pc[q] = "wait" /\ req[q].Key = "a"

\* C19: a call on the store's clock that waited for another transaction's
\* row lock decides with the store's clock as it reads once the lock is
\* granted, not with a reading from before or during the wait.
C19_ClockAfterWait ==
    [][\A p \in Procs :
          (pc[p] = "wait" /\ pc'[p] # "wait") => now'[p] = TimeUnixMicro(clock)]_vars

\* C20: Allow calls Reserve with the request's key, D, burst, now and tokens
\* and MaxFutureReserve = 0; it returns (r.OK, nil) for the Reservation r of
\* that call, whose decision and stored value are those of that Reserve, and
\* (false, err) when that call returns the error err.
C20_Allow ==
    \A p \in Procs : facade[p] # <<>> =>
        LET a == facade[p][1].req
            out == facade[p][1].out
            res == ret[p][1]
        IN  /\ req[p] = [Key |-> a.Key, DurationPerToken |-> a.DurationPerToken,
                         Burst |-> a.Burst, Now |-> a.Now, Tokens |-> a.Tokens,
                         MaxFutureReserve |-> 0]
            /\ out # <<>> =>
                   IF res.err = "nil"
                   THEN /\ out = <<<<res.r[1].OK, "nil">>>>
                        /\ last[a.Key] # <<>>
                        /\ last[a.Key][1].req = req[p]
                        /\ last[a.Key][1].OK = res.r[1].OK
                        /\ Stored(a.Key) = last[a.Key][1].after
                        /\ Answer(driver, last[a.Key][1].before, clock, req[p],
                                  last[a.Key][1].now)
                               = [OK |-> res.r[1].OK, TimeToAct |-> res.r[1].TimeToAct]
                   ELSE out = <<<<FALSE, res.err>>>>

C20_Witness ==
    \E p \in Procs :
        /\ facade[p] # <<>>
        /\ facade[p][1].out = <<<<FALSE, "nil">>>>
        /\ last[req[p].Key][1].before # <<>>

\* C21: a rejected call returns a Reservation with OK = false, the computed
\* TimeToAct and no error; a call returns an error only for invalid
\* parameters, a context that is done or a storage failure, and then it
\* returns no Reservation.
C21_RejectionIsNoError ==
    \A p \in Procs : pc[p] = "done" =>
        LET res == ret[p][1]
            k == req[p].Key
        IN  /\ res.err = "nil" =>
                   /\ res.r # <<>>
                   /\ last[k] # <<>>
                   /\ ~res.r[1].OK =>
                          res.r[1].TimeToAct =
                              Answer(driver, last[k][1].before, clock, req[p],
                                     last[k][1].now).TimeToAct
            /\ res.err # "nil" =>
                   /\ res.r = <<>>
                   /\ \/ res.err = "ErrInvalidParameters" /\ InvalidParameters(req[p])
                      \/ res.err = "context done" /\ ctx[p].done
                      \/ errs[p] # <<>> /\ res.err = errs[p][Len(errs[p])]

\* C22: DelayFrom(t) on an admitted Reservation returns TimeToAct - t when
\* that is positive and 0 otherwise, for any instant t.
C22_DelayFrom ==
    \A p \in Procs :
        (called[p] # <<>> /\ called[p][1].method = "DelayFrom" /\ called[p][1].rv.OK) =>
            LET c == called[p][1]
            IN  c.out = <<IF c.rv.TimeToAct - c.t > 0 THEN c.rv.TimeToAct - c.t ELSE 0>>

C22_Witness ==
    \E p \in Procs :
        /\ called[p] # <<>> /\ called[p][1].method = "DelayFrom"
        /\ called[p][1].rv.OK
        /\ called[p][1].rv.TimeToAct > called[p][1].t
        /\ called[p][1].out = <<called[p][1].rv.TimeToAct - called[p][1].t>>

\* C23: RetryAfterFrom(t) on a rejected Reservation returns TimeToAct - t -
\* MaxFutureReserve when that is positive and 0 otherwise, for any instant
\* t, MaxFutureReserve being that of the request the call was made with.
C23_RetryAfterFrom ==
    \A p \in Procs :
        (/\ called[p] # <<>>
         /\ called[p][1].method = "RetryAfterFrom"
         /\ ~called[p][1].rv.OK) =>
            LET c == called[p][1]
                d == c.rv.TimeToAct - c.t - req[p].MaxFutureReserve
            IN  c.out = <<IF d > 0 THEN d ELSE 0>>

C23_Witness ==
    \E p \in Procs :
        /\ called[p] # <<>> /\ called[p][1].method = "RetryAfterFrom"
        /\ ~called[p][1].rv.OK
        /\ req[p].MaxFutureReserve > 0
        /\ called[p][1].out # <<0>>
        /\ called[p][1].out =
               <<called[p][1].rv.TimeToAct - called[p][1].t - req[p].MaxFutureReserve>>

\* Caller p has called Delay or DelayFrom on a rejected Reservation, or
\* RetryAfter or RetryAfterFrom on an admitted one.
Misused(p) ==
    /\ called[p] # <<>>
    /\ IF called[p][1].method \in {"Delay", "DelayFrom"}
       THEN ~called[p][1].rv.OK
       ELSE called[p][1].rv.OK

\* C24: Delay or DelayFrom on a Reservation with OK = false, and RetryAfter
\* or RetryAfterFrom on one with OK = true, panics: the call returns no
\* duration and the caller goes no further.
C24_MisusePanics ==
    [][\A p \in Procs :
          /\ Misused(p)' => (called'[p][1].out = <<>> /\ pc'[p] = "panic")
          /\ pc[p] = "panic" => (pc'[p] = "panic" /\ called'[p] = called[p])]_vars

C24_Witness ==
    \E p \in Procs : Misused(p) /\ called[p][1].method = "RetryAfter" /\ pc[p] = "panic"

\* Caller p's transaction is kept waiting: its locking read or its insert
\* cannot proceed.
Waiting(p) ==
    \/ pc[p] = "wait" /\ ~ENABLED GormGranted(p)
    \/ pc[p] = "create" /\ ~ENABLED GormCreate(p)

\* C25: a step of a Reserve call on key k changes the stored value and the
\* existence of no other key, and a call is kept waiting only while another
\* transaction holds the row of its own key.
C25_OtherKeysUntouched ==
    [][/\ \A j \in Keys :
             (kvs'[j] # kvs[j] \/ rds'[j] # rds[j]) =>
                 \E p \in Procs : pc'[p] # pc[p] /\ req'[p].Key = j
       /\ \A p \in Procs :
             Waiting(p)' =>
                 /\ lockedBy'[req'[p].Key] \notin {NoProc, p}
                 /\ req'[lockedBy'[req'[p].Key]].Key = req'[p].Key]_vars

C25_Witness ==
    \E p, q \in Procs :
        /\ req[p].Key = "a" /\ req[q].Key = "b"
        /\ pc[p] = "commit" /\ lockedBy["a"] = p /\ kv[p].Key = "a"
        /\ pc[q] = "commit" /\ lockedBy["b"] = q /\ kv[q].Key = "b"

\* C26: when the same valid requests with the same whole-microsecond now
\* values have gone to the GORM driver and to the Redis driver, started on
\* the same stored state, both drivers have returned the same OK and
\* TimeToAct for each request and hold the same time base for every key.
C26_DriversAgree ==
    (pc[1] = "done" /\ pc[2] = "done") =>
        /\ ret[1][1].err = "nil" /\ ret[2][1].err = "nil"
        /\ ret[1][1].r[1].OK = ret[2][1].r[1].OK
        /\ ret[1][1].r[1].TimeToAct = ret[2][1].r[1].TimeToAct
        /\ \A k \in Keys : StoredInstant(kvs[k]) = StoredInstant(rds[k])

\* What the script of the running driver replies to request r on the stored
\* value `stored` when the store's clock reads clk.
ScriptReply(stored, clk, r) ==
    IF driver = "redis" THEN redisScript(stored, scriptArgs(r, r.Now)).reply
    ELSE luaScript(stored, clk,
                   IF IsZero(r.Now) THEN [scriptArgs(r, r.Now) EXCEPT ![4] = 0]
                   ELSE scriptArgs(r, r.Now)).reply

\* The script driver of caller p's call runs the script: the driver's own
\* checks let the request through.
RunsScript(r, c) ==
    /\ driver \in {"redis", "lua"}
    /\ ~InvalidParameters(r)
    /\ ~c.done
    /\ driver = "redis" => ~IsZero(r.Now)

\* C27: every run of the script replies with three elements, status,
\* timeToAct and the now it used, the status being 0, -1 or -2; the driver
\* returns OK = true for 0, OK = false and no error for -1, and the
\* invalid-parameters error for -2.
C27_ScriptReply ==
    [][\A p \in Procs :
          (pc[p] = "idle" /\ pc'[p] = "done" /\ RunsScript(req'[p], ctx'[p])) =>
              LET reply == ScriptReply(rds[req'[p].Key], clock, req'[p])
              IN  /\ Len(reply) = 3
                  /\ reply[1] \in {0, 0 - 1, 0 - 2}
                  /\ reply[1] = 0 =>
                         (ret'[p][1].err = "nil" /\ ret'[p][1].r[1].OK)
                  /\ reply[1] = 0 - 1 =>
                         (ret'[p][1].err = "nil" /\ ~ret'[p][1].r[1].OK)
                  /\ reply[1] = 0 - 2 =>
                         ret'[p] = Failure("ErrInvalidParameters")]_vars

\* C28: when a transaction of the GORM driver fails and is not tried again,
\* the call returns that error and no Reservation; and whenever a
\* transaction fails, the rows committed before stay as they were, the row
\* the transaction inserted or updated is dropped and its locks are freed.
C28_FailureRollsBack ==
    [][\A p \in Procs :
          /\ (pc[p] \in {"query", "create", "update"} /\ pc'[p] = "done") =>
                 /\ Len(errs'[p]) = Len(errs[p]) + 1
                 /\ ret'[p] = Failure(errs'[p][Len(errs'[p])])
          /\ Len(errs'[p]) > Len(errs[p]) =>
                 /\ kvs' = kvs
                 /\ tx'[p] = <<>>
                 /\ \A k \in Keys : lockedBy'[k] # p
                 /\ ~retryable(idx[p], errs'[p][Len(errs'[p])]) => pc'[p] = "done"]_vars

\* A call has failed on the update after it had inserted the row of its
\* key: the key is absent again.
C28_Witness ==
    \E p \in Procs :
        /\ pc[p] = "done"
        /\ ret[p] = Failure("failed to save time to act")
        /\ kvs[req[p].Key] = <<>>
        /\ deletes = 0
        /\ \A q \in Procs : q # p => pc[q] = "idle"

\* The decided call c found its bucket freshly reset and asked for the whole
\* burst with no future reserve.
TookFreshBurst(c) ==
    /\ \/ c.before = <<>>
       \/ StoredInstant(c.before)[1] <= c.now - c.req.Burst * c.req.DurationPerToken
    /\ c.req.Tokens = c.req.Burst
    /\ c.req.MaxFutureReserve = 0

\* C29: a call for Burst tokens with no future reserve on a freshly reset
\* bucket is admitted with TimeToAct = now, and the call for 1 token with no
\* future reserve that follows it at the same now is rejected.
C29_BurstExhausts ==
    [][\A k \in Keys : last'[k] # last[k] =>
          LET c == last'[k][1]
          IN  /\ TookFreshBurst(c) => (c.OK /\ c.TimeToAct = c.now)
              /\ (/\ last[k] # <<>>
                  /\ TookFreshBurst(last[k][1])
                  /\ c.now = last[k][1].now
                  /\ c.before = last[k][1].after
                  /\ c.req.Tokens = 1
                  /\ c.req.MaxFutureReserve = 0) => ~c.OK]_vars

\* The tokens of the admissions i..j of the sequence a.
RECURSIVE TokensBetween(_, _, _)
TokensBetween(a, i, j) == IF i > j THEN 0 ELSE a[i][2] + TokensBetween(a, i + 1, j)

\* C30: with a fixed rate, no future reserve and instants that never go
\* back, the tokens admitted for a key by the calls served within any
\* interval [t1, t2] number at most Burst + (t2 - t1) / D; at one instant,
\* at most Burst.
C30_RateBound ==
    \A k \in Keys : \A i, j \in 1..Len(admitted[k]) :
        i <= j =>
            TokensBetween(admitted[k], i, j) * rate.DurationPerToken
                <= rate.Burst * rate.DurationPerToken
                       + (admitted[k][j][1] - admitted[k][i][1])

\* C31: once a key's stored time base is at or below now - Burst*D, the
\* one-token calls without future reserve at that now are admitted Burst
\* times and then rejected, as on a key never used.
C31_IdleBurst ==
    (pc[1] = "done" /\ calls >= 1) =>
        /\ ret[1][1].err = "nil"
        /\ calls <= rate.Burst => ret[1][1].r[1].OK
        /\ calls = rate.Burst + 1 => ~ret[1][1].r[1].OK

\* The call decided in this step repeats the request of the key's previous
\* decided call, which was rejected with MaxFutureReserve >= 0, on the stored
\* value that call left.
RetriesRejected(p) ==
    LET k == req'[p].Key
    IN  /\ pc[p] # "done" /\ pc'[p] = "done"
        /\ ret'[p][1].err = "nil"
        /\ last[k] # <<>>
        /\ ~last[k][1].OK
        /\ last[k][1].req.MaxFutureReserve >= 0
        /\ SameRequest(last[k][1].req, last'[k][1].req)
        /\ last'[k][1].before = last[k][1].after

\* RetryAfterFrom(now) of the rejected call the history keeps as c.
RetryAfterOf(c) ==
    RetryAfterFrom(Reservation(c.req, c.OK, c.TimeToAct, c.now), c.now).d

\* C32: the request of a call rejected at now with MaxFutureReserve >= 0,
\* issued again with no admission on the key in between, is admitted at
\* now + RetryAfterFrom(now) and rejected at every instant from now up to it.
C32_ExactRetryAfter ==
    [][\A p \in Procs : RetriesRejected(p) =>
          LET prev == last[req'[p].Key][1]
              c == last'[req'[p].Key][1]
          IN  /\ c.now = prev.now + RetryAfterOf(prev) => c.OK
              /\ (c.now >= prev.now /\ c.now < prev.now + RetryAfterOf(prev))
                     => ~c.OK]_vars

\* C33: a first-use call inserts the reset value and updates it to TimeToAct
\* in one transaction: a call that reads the row of a key reads the value
\* committed, while no other transaction holds a row of the key uncommitted;
\* and the commit of a first-use call stores TimeToAct, not the reset value.
C33_FirstUseAtomic ==
    [][\A p \in Procs :
          /\ (pc[p] \in {"query", "wait"} /\ pc'[p] = "update") =>
                 /\ kvs[req[p].Key] = <<kv'[p].Value>>
                 /\ \A q \in Procs \ {p} :
                        req[q].Key = req[p].Key => tx[q] = <<>>
          /\ (pc[p] = "commit" /\ pc'[p] = "done" /\ kv[p].Key = "") =>
                 /\ kvs'[req[p].Key] = <<rowValue(timeToAct[p])>>
                 /\ kvs'[req[p].Key] # <<rowValue(resetValue(now[p], req[p]))>>]_vars

\* The value the key of the running driver holds after the step.
StoredNext(k) == IF driver = "gorm" THEN kvs'[k] ELSE rds'[k]

\* Caller p's call is decided in this step on a key the store does not hold.
\* The request has valid parameters and MaxFutureReserve >= 0, and the
\* context is live.
FirstUse(p) ==
    /\ pc[p] # "done" /\ pc'[p] = "done"
    /\ ~InvalidParameters(req'[p])
    /\ Stored(req'[p].Key) = <<>>
    /\ req'[p].MaxFutureReserve >= 0
    /\ ~ctx'[p].done

\* C34: the first call on a key the store does not hold, with valid
\* parameters and MaxFutureReserve >= 0, is admitted, and a key comes to be
\* held only by an admitted call.
C34_FirstUseAdmitted ==
    [][\A p \in Procs : FirstUse(p) =>
          /\ ret'[p][1].err = "nil"
          /\ ret'[p][1].r[1].OK
          /\ StoredNext(req'[p].Key) # <<>>]_vars

\* C35: every call on the GORM driver returns: a call that has returned, be
\* it rejected or failed, holds no lock and no uncommitted row; a call makes
\* at most two attempts; and every call that has begun comes to return,
\* whatever the other callers of its key do.
C35_Returns ==
    /\ [](\A p \in Procs :
             /\ pc[p] = "done" => (tx[p] = <<>> /\ \A k \in Keys : lockedBy[k] # p)
             /\ idx[p] <= 1 /\ Len(errs[p]) <= idx[p] + 1)
    /\ \A p \in Procs : (pc[p] \notin {"idle", "done"}) ~> (pc[p] = "done")

\* A rejected call has returned and freed the row another call waits for.
C35_Witness ==
    \E p, q \in Procs :
        /\ pc[p] = "done"
        /\ ret[p][1].err = "nil"
        /\ ~ret[p][1].r[1].OK
        /\ pc[q] = "wait"
        /\ lockedBy[req[q].Key] = NoProc

\* C36: the attempt after a duplicate-key failure starts from scratch: it
\* begins with no transaction, no lock and fresh locals; its locked read
\* takes the row as committed by then (the winner's, while no row is
\* deleted) and the store's clock of that read; and the Reservation it
\* returns is the answer computed on that row at that clock.
C36_RetryFromScratch ==
    [][\A p \in Procs :
          /\ (idx[p] = 0 /\ idx'[p] = 1) =>
                 /\ pc'[p] = "query"
                 /\ req'[p] = req[p] /\ ctx'[p] = ctx[p]
                 /\ tx'[p] = <<>>
                 /\ \A k \in Keys : lockedBy'[k] # p
                 /\ now'[p] = ZeroTime /\ timeBase'[p] = ZeroTime
                 /\ timeToAct'[p] = ZeroTime /\ ~ok'[p] /\ kv'[p] = NoKV
          /\ (idx[p] = 1 /\ pc[p] = "query" /\ pc'[p] \in {"create", "update"}) =>
                 /\ kv'[p] = rawQuery(req[p].Key)
                 /\ now'[p] = TimeUnixMicro(clock)
                 /\ deletes = 0 => kv'[p].Key = req[p].Key
          /\ (idx[p] = 1 /\ pc[p] = "commit" /\ pc'[p] = "done") =>
                 LET a == Answer("gorm",
                                 IF kv[p].Key = "" THEN <<>> ELSE <<kv[p].Value>>,
                                 clock, req[p], kv[p].Now)
                 IN  ret'[p] = Success(Reservation(req[p], a.OK, a.TimeToAct,
                                                   kv[p].Now))]_vars

\* A call that lost the insert has returned a Reservation decided at a later
\* reading of the clock than the winner's.
C36_Witness ==
    \E p, q \in Procs :
        /\ p # q
        /\ pc[p] = "done" /\ pc[q] = "done"
        /\ errs[p] = <<"SQLSTATE 23505">> /\ errs[q] = <<>>
        /\ ret[p][1].err = "nil" /\ ret[q][1].err = "nil"
        /\ ret[p][1].r[1].Now > ret[q][1].r[1].Now

\* C37: the GORM driver decides a call at the clock override of its context
\* when the Test flag is set and the context carries one, and in every
\* other case, with an override in the context or without, at the store's
\* clock as its locked read returned it.
C37_OverrideOnlyInTest ==
    [][\A p \in Procs :
          /\ (driver = "gorm" /\ pc[p] = "query" /\ pc'[p] \in {"create", "update"}) =>
                 /\ kv'[p].Now = TimeUnixMicro(clock)
                 /\ now'[p] = IF Test /\ ctx[p].hasNowFunc THEN ctx[p].nowFunc
                              ELSE TimeUnixMicro(clock)
          /\ (driver = "gorm" /\ pc[p] = "commit" /\ pc'[p] = "done") =>
                 LET n == IF Test /\ ctx[p].hasNowFunc THEN ctx[p].nowFunc
                          ELSE kv[p].Now
                     a == Answer("gorm", kvs[req[p].Key], clock, req[p], n)
                 IN  ret'[p] = Success(Reservation(req[p], a.OK, a.TimeToAct, n))]_vars

\* Outside test mode a call whose context carries a clock override has been
\* decided at the store's clock.
C37_Witness ==
    \E p \in Procs :
        /\ driver = "gorm" /\ ~Test
        /\ pc[p] = "done"
        /\ ctx[p].hasNowFunc
        /\ ret[p][1].err = "nil"
        /\ ret[p][1].r[1].Now # ctx[p].nowFunc
        /\ ret[p][1].r[1].Now = last[req[p].Key][1].now
        /\ last[req[p].Key][1].before # <<>>

\* C38: a call with invalid parameters whose context is already done returns
\* the invalid-parameters error, not the cancellation error, in its first
\* step, on every driver.
C38_ValidationFirst ==
    [][\A p \in Procs :
          (/\ pc[p] = "idle" /\ pc'[p] # "idle"
           /\ ctx'[p].done
           /\ \/ req'[p].Key = ""
              \/ req'[p].DurationPerToken <= 0
              \/ req'[p].Burst <= 0
              \/ req'[p].Tokens <= 0
              \/ req'[p].Tokens > req'[p].Burst)
              => /\ pc'[p] = "done"
                 /\ ret'[p] = Failure("ErrInvalidParameters")]_vars

\* A call with an empty key and a context already done has returned the
\* invalid-parameters error.
C38_Witness ==
    \E p \in Procs :
        /\ pc[p] = "done"
        /\ ctx[p].done
        /\ req[p].Key = ""
        /\ ret[p] = Failure("ErrInvalidParameters")

\* C39: a request the script driver's own parameter check lets through is
\* never answered by the script with the invalid-parameters status -2.
C39_ValidationsAgree ==
    [][\A p \in Procs :
          (pc[p] = "idle" /\ pc'[p] = "done" /\ RunsScript(req'[p], ctx'[p])) =>
              /\ ScriptReply(rds[req'[p].Key], clock, req'[p])[1] # 0 - 2
              /\ ret'[p][1].err # "ErrInvalidParameters"]_vars

====
